---- MODULE Spec2Model ----
(***************************************************************************)
(* README generator: the create-pr serverless function (five-step branch / *)
(* commit / pull-request workflow with a compensating branch delete) and   *)
(* the browser-side GitHub fetch client with its shared rate-limit state.  *)
(***************************************************************************)
EXTENDS Integers, Sequences, FiniteSets, TLC

(***************************************************************************)
(* Bounds of the model                                                     *)
(***************************************************************************)
\* Date.now() values a create-pr invocation may observe (branch-name suffix)
MaxStamp == 2
\* number of fetchWithRateLimit calls that may be in flight together
NumCalls == 2
\* the clock advances at most this many backoff periods
MaxTicks == 3

(***************************************************************************)
(* create-pr: state                                                        *)
(***************************************************************************)
VARIABLES
  prPc,        \* position of exports.handler: the await it is suspended at
  prLocal,     \* baseBranch, newBranch, content kind, fileSha, updateFileResult.status
  prReqs,      \* GitHub requests issued so far, in order
  prOutcomes,  \* outcome of each answered request: "ok", "fail" (status), "throw"
  prRemote,    \* effects on the remote repository: branch created, file written
  prResult,    \* the response returned to the caller
  prStatuses,  \* status of each answered request (0: the fetch rejected)
  prEvent      \* the event the invocation was started with

prVars == <<prPc, prLocal, prReqs, prOutcomes, prRemote, prResult, prStatuses,
           prEvent>>

(***************************************************************************)
(* fetch client (services/github.js): state                                *)
(***************************************************************************)
VARIABLES
  rateLimit,   \* the module-level rateLimit object {remaining, reset}
  now,         \* the clock read by new Date(), in milliseconds
  fPc,         \* per call: idle, inflight, errbody, backoff, done
  fRetries,    \* per call: the retries argument of the running invocation
  fNet,        \* per call: network requests issued so far
  fResp,       \* per call: the non-OK response whose body is being read
  fWake,       \* per call: when the backoff timer fires
  fResult,     \* per call: pending, the resolved value, or the thrown error
  lastHdrs,    \* rate-limit headers of the response processed last
  lastRated    \* headers of the last response that had x-ratelimit-remaining

fVars == <<rateLimit, now, fPc, fRetries, fNet, fResp, fWake, fResult, lastHdrs,
          lastRated>>

(***************************************************************************)
(* aggregator (services/github.js fetchRepoData): state                    *)
(***************************************************************************)
VARIABLES
  rdPc,        \* position of fetchRepoData: the await it is suspended at
  rdStages,    \* labels passed to onStageChange so far, in order
  rdCalls,     \* fetchWithRateLimit calls started so far: stage or config path
  rdOut,       \* how the repo, languages and tree calls ended, in order
  rdFiles,     \* the local `files`
  rdDirs,      \* the local `directories`
  rdTree,      \* the `tree` array the lists were taken from (empty: none)
  rdContent,   \* per call: what fetchFileContent returned for its path
  rdResult     \* the snapshot returned, or the error thrown

rdVars == <<rdPc, rdStages, rdCalls, rdOut, rdFiles, rdDirs, rdTree, rdContent,
           rdResult>>

(***************************************************************************)
(* generation path (generate-readme function, services/readme.js): state   *)
(***************************************************************************)
VARIABLES
  gnPc,        \* position of the generate-readme handler
  gnEvent,     \* the event the handler was started with
  gnSent,      \* prompts forwarded to the generation backend, in order
  gnResp,      \* the backend response whose body is being read
  gnResult,    \* the response of the handler
  grPc,        \* position of generateReadme
  grIn,        \* the arguments of generateReadme
  grResult     \* what generateReadme resolved with, or the error it threw

genVars == <<gnPc, gnEvent, gnSent, gnResp, gnResult, grPc, grIn, grResult>>

(***************************************************************************)
(* ReadmeOutput.handleCreatePR (components/GitHubTokenModal.jsx): state    *)
(***************************************************************************)
VARIABLES
  hcPc,        \* position of handleCreatePR
  hcProps,     \* isAuthenticated and repoInfo of the render
  hcResp,      \* the create-pr response being handled
  hcCreating,  \* the `creating` flag
  hcError,     \* the `error` state
  hcSet,       \* messages the handler passed to setError in this run, in order
  hcAuth,      \* calls of onAuthRequired by this invocation
  hcPrUrl      \* the `prUrl` state

uiVars == <<hcPc, hcProps, hcResp, hcCreating, hcError, hcSet, hcAuth, hcPrUrl>>

(***************************************************************************)
(* buildPrompt (services/readme.js): state                                 *)
(***************************************************************************)
VARIABLES
  bpIn,        \* the arguments of buildPrompt
  bpOut        \* the strings returned by the calls made so far, in order

bpVars == <<bpIn, bpOut>>

(***************************************************************************)
(* generateReadme's anchor repair (services/readme.js): state              *)
(***************************************************************************)
VARIABLES
  tocIn,       \* the backend text and the two options of the call
  tocOut       \* the texts returned by the calls made so far, in order

tocVars == <<tocIn, tocOut>>

(***************************************************************************)
(* mergeSections (App.jsx): state                                          *)
(***************************************************************************)
VARIABLES
  msIn,        \* the arguments of mergeSections
  msOut        \* what the calls made so far returned, in order

msVars == <<msIn, msOut>>

(***************************************************************************)
(* auth-callback (netlify/functions/auth-status.js): state                 *)
(***************************************************************************)
VARIABLES
  acPc,        \* position of the auth-callback handler
  acEvent,     \* the event the handler was started with
  acReqs,      \* requests the handler sent to GitHub, in order, each with
               \* what came back once it settled
  acResult     \* the response of the handler

acVars == <<acPc, acEvent, acReqs, acResult>>

(***************************************************************************)
(* auth-status (netlify/functions/auth-status.js): state                   *)
(***************************************************************************)
VARIABLES
  asEvent,     \* the event of the last auth-status invocation
  asResult     \* the response of the last auth-status invocation

asVars == <<asEvent, asResult>>

(***************************************************************************)
(* App.handleSubmit (App.jsx): state                                       *)
(***************************************************************************)
VARIABLES
  hsPc,        \* position of handleSubmit
  hsUrl,       \* the repoUrl state the run was started with
  hsLoading,   \* the `loading` state
  hsStage,     \* the `stage` state
  hsError,     \* the `error` state
  hsReadme,    \* the `readme` state
  hsSet,       \* non-empty messages passed to setError by this run, in order
  hsLoads,     \* calls of setLoading(true) by this run
  hsCalls      \* service calls (each a fetch sequence) made by this run

hsVars == <<hsPc, hsUrl, hsLoading, hsStage, hsError, hsReadme, hsSet,
            hsLoads, hsCalls>>

\* the components of the browser session and of the authentication functions
lateVars == <<tocVars, msVars, acVars, asVars, hsVars>>

\* the components other than create-pr, the fetch client and the aggregator
restVars == <<genVars, uiVars, bpVars, lateVars>>

vars == <<prPc, prLocal, prReqs, prOutcomes, prRemote, prResult, prStatuses,
          prEvent,
          rateLimit, now, fPc, fRetries, fNet, fResp, fWake, fResult, lastHdrs,
          lastRated,
          rdPc, rdStages, rdCalls, rdOut, rdFiles, rdDirs, rdTree, rdContent,
          rdResult,
          gnPc, gnEvent, gnSent, gnResp, gnResult, grPc, grIn, grResult,
          hcPc, hcProps, hcResp, hcCreating, hcError, hcSet, hcAuth, hcPrUrl,
          bpIn, bpOut,
          tocIn, tocOut, msIn, msOut, acPc, acEvent, acReqs, acResult,
          asEvent, asResult,
          hsPc, hsUrl, hsLoading, hsStage, hsError, hsReadme, hsSet, hsLoads,
          hsCalls>>

(***************************************************************************)
(* create-pr: inputs                                                       *)
(***************************************************************************)
Methods == {"OPTIONS", "GET", "POST"}

\* the session cookie of the request, by what decrypt / JSON.parse make of it
CookieKinds == {"none", "garbled", "notjson", "notoken", "expired", "valid"}

Events ==
  [ httpMethod    : Methods,
    authSecret    : {"", "secret"},
    cookie        : CookieKinds,
    bodyJson      : BOOLEAN,
    owner         : {"", "acme"},
    repo          : {"", "widget"},
    content       : {"missing", "string", "number"},
    defaultBranch : {"", "dev"},
    now           : 1..MaxStamp ]

\* what fetch() does for one GitHub request: it rejects (network failure, or
\* the body cannot be read), or it resolves with a status and a JSON or a
\* text body
\* no invocation yet
NoEvent ==
  [ httpMethod |-> "none", authSecret |-> "", cookie |-> "none",
    bodyJson |-> FALSE, owner |-> "", repo |-> "", content |-> "missing",
    defaultBranch |-> "", now |-> 0 ]

GhStatuses == {200, 401, 403, 404, 409, 422, 500}

GhResponses ==
  [kind : {"resp"}, status : GhStatuses, json : BOOLEAN]
    \cup {[kind |-> "throw", status |-> 0, json |-> FALSE]}

(***************************************************************************)
(* create-pr: helpers                                                      *)
(***************************************************************************)
\* decrypt: null unless the cookie is iv:authTag:ciphertext under the secret
decrypt(cookie, secret) ==
  IF cookie \in {"none", "garbled"} THEN "null" ELSE cookie

\* getTokenFromSession: the token of the session cookie, or "null"
getTokenFromSession(ev) ==
  IF ev.authSecret = "" THEN "null"
  ELSE IF ev.cookie = "none" THEN "null"
  ELSE IF decrypt(ev.cookie, ev.authSecret) = "null" THEN "null"
  ELSE IF ev.cookie = "notjson" THEN "null"
  ELSE IF ev.cookie = "notoken" THEN "undefined"
  ELSE "token"

\* response.ok
Ok(status) == status >= 200 /\ status <= 299

\* githubFetch: ok / status / data of a resolved fetch; a rejected fetch
\* propagates (thrown is TRUE)
githubFetch(r) ==
  [ thrown |-> r.kind = "throw",
    ok     |-> r.kind = "resp" /\ Ok(r.status),
    status |-> r.status,
    json   |-> r.json ]

\* `readme-update-${Date.now()}`
NewBranchName(t) == IF t = 1 THEN "readme-update-1"
                    ELSE IF t = 2 THEN "readme-update-2"
                    ELSE "readme-update-3"

Request(op, branch, base, sha) ==
  [op |-> op, branch |-> branch, base |-> base, sha |-> sha]

NoResult ==
  [ statusCode |-> 0, error |-> "none", sessionExpired |-> FALSE,
    success |-> FALSE, prUrl |-> FALSE, details |-> "none" ]

Response(code, error) ==
  [ statusCode |-> code, error |-> error, sessionExpired |-> FALSE,
    success |-> FALSE, prUrl |-> FALSE, details |-> "none" ]

ResponseWithDetails(code, error, details) ==
  [ statusCode |-> code, error |-> error, sessionExpired |-> FALSE,
    success |-> FALSE, prUrl |-> FALSE, details |-> details ]

\* the outer catch of exports.handler
InternalError == ResponseWithDetails(500, "Internal server error", "exception")

\* the 401 branch of step 1 with the sessionExpired flag left out
SessionExpiredResponseNoFlag ==
  Response(401, "GitHub session expired. Please sign in again.")

\* the 401 branch of step 1
SessionExpiredResponse ==
  [Response(401, "GitHub session expired. Please sign in again.")
     EXCEPT !.sessionExpired = TRUE]

Outcome(res) == IF res.thrown THEN "throw" ELSE IF res.ok THEN "ok" ELSE "fail"

(***************************************************************************)
(* create-pr: the handler, one action per segment between two awaits       *)
(***************************************************************************)
PrInit ==
  /\ prPc = "idle"
  /\ prLocal = [ baseBranch |-> "", newBranch |-> "", content |-> "missing",
                 fileSha |-> FALSE, updateStatus |-> 0 ]
  /\ prReqs = << >>
  /\ prOutcomes = << >>
  /\ prRemote = [branchCreated |-> FALSE, fileWritten |-> FALSE,
                 branchDeleted |-> FALSE]
  /\ prResult = NoResult
  /\ prStatuses = << >>
  /\ prEvent = NoEvent

Finish(result) ==
  /\ prPc' = "done"
  /\ prResult' = result

\* entry of the handler up to the first await (the step-1 request)
Invoke(ev) ==
  /\ prPc = "idle"
  /\ UNCHANGED <<fVars, rdVars, restVars>>
  /\ IF ev.httpMethod = "OPTIONS" THEN
       /\ Finish(Response(204, ""))
       /\ UNCHANGED <<prLocal, prReqs>>
     ELSE IF ev.httpMethod # "POST" THEN
       /\ Finish(Response(405, "Method not allowed"))
       /\ UNCHANGED <<prLocal, prReqs>>
     ELSE IF getTokenFromSession(ev) \in {"null", "undefined"} THEN
       /\ Finish(Response(401, "Not authenticated. Please sign in with GitHub."))
       /\ UNCHANGED <<prLocal, prReqs>>
     ELSE IF ~ev.bodyJson THEN
       /\ Finish(Response(400, "Invalid JSON in request body"))
       /\ UNCHANGED <<prLocal, prReqs>>
     ELSE IF ev.owner = "" \/ ev.repo = "" \/ ev.content = "missing" THEN
       /\ Finish(Response(400, "Missing required fields"))
       /\ UNCHANGED <<prLocal, prReqs>>
     ELSE
       LET baseBranch == IF ev.defaultBranch = "" THEN "main" ELSE ev.defaultBranch
           newBranch  == NewBranchName(ev.now)
       IN /\ prLocal' = [prLocal EXCEPT !.baseBranch = baseBranch,
                                        !.newBranch = newBranch,
                                        !.content = ev.content]
          /\ prReqs' = Append(prReqs, Request("getRef", baseBranch, "", FALSE))
          /\ prPc' = "getRef"
          /\ prResult' = prResult
  /\ prEvent' = ev
  /\ UNCHANGED <<prOutcomes, prStatuses, prRemote>>

\* step 1 with the return of the 403 branch missing: the handler goes on
GetRefResponseNoAbort(r) ==
  /\ prPc = "getRef"
  /\ UNCHANGED <<fVars, rdVars, restVars>>
  /\ LET res == githubFetch(r) IN
     /\ prOutcomes' = Append(prOutcomes, Outcome(res))
     /\ prStatuses' = Append(prStatuses, res.status)
     /\ UNCHANGED prEvent
     /\ IF res.thrown THEN
          /\ Finish(InternalError)
          /\ UNCHANGED prReqs
        ELSE IF ~res.ok /\ res.status # 403 THEN
          /\ UNCHANGED prReqs
          /\ IF res.status = 401 THEN
               Finish(SessionExpiredResponse)
             ELSE IF res.status = 404 THEN
               Finish(Response(404, "Branch not found. Check the default branch name."))
             ELSE IF res.status = 403 THEN
               Finish(Response(403, "You don't have permission to access this repository."))
             ELSE
               Finish(ResponseWithDetails(res.status, "Failed to get branch reference",
                                          "getRef"))
        ELSE IF ~res.json THEN
          \* refResult.data.object.sha on a text body throws
          /\ Finish(InternalError)
          /\ UNCHANGED prReqs
        ELSE
          /\ prReqs' = Append(prReqs,
                         Request("createBranch", prLocal.newBranch, "", FALSE))
          /\ prPc' = "createBranch"
          /\ prResult' = prResult
  /\ UNCHANGED <<prLocal, prRemote>>

\* step 1 answered: map the failure, or issue step 2
GetRefResponse(r) ==
  /\ prPc = "getRef"
  /\ UNCHANGED <<fVars, rdVars, restVars>>
  /\ LET res == githubFetch(r) IN
     /\ prOutcomes' = Append(prOutcomes, Outcome(res))
     /\ prStatuses' = Append(prStatuses, res.status)
     /\ UNCHANGED prEvent
     /\ IF res.thrown THEN
          /\ Finish(InternalError)
          /\ UNCHANGED prReqs
        ELSE IF ~res.ok THEN
          /\ UNCHANGED prReqs
          /\ IF res.status = 401 THEN
               Finish(SessionExpiredResponse)
             ELSE IF res.status = 404 THEN
               Finish(Response(404, "Branch not found. Check the default branch name."))
             ELSE IF res.status = 403 THEN
               Finish(Response(403, "You don't have permission to access this repository."))
             ELSE
               Finish(ResponseWithDetails(res.status, "Failed to get branch reference",
                                          "getRef"))
        ELSE IF ~res.json THEN
          \* refResult.data.object.sha on a text body throws
          /\ Finish(InternalError)
          /\ UNCHANGED prReqs
        ELSE
          /\ prReqs' = Append(prReqs,
                         Request("createBranch", prLocal.newBranch, "", FALSE))
          /\ prPc' = "createBranch"
          /\ prResult' = prResult
  /\ UNCHANGED <<prLocal, prRemote>>

\* step 2 with a 422 answered by a second create-branch under another name
CreateBranchResponseRetry422(r) ==
  /\ prPc = "createBranch"
  /\ UNCHANGED <<fVars, rdVars, restVars>>
  /\ LET res == githubFetch(r) IN
     /\ prOutcomes' = Append(prOutcomes, Outcome(res))
     /\ prStatuses' = Append(prStatuses, res.status)
     /\ UNCHANGED prEvent
     /\ IF res.thrown THEN
          /\ Finish(InternalError)
          /\ UNCHANGED <<prReqs, prRemote>>
        ELSE IF ~res.ok /\ res.status = 422 /\ Len(prReqs) < 3 THEN
          /\ prReqs' = Append(prReqs,
                         Request("createBranch", NewBranchName(3), "", FALSE))
          /\ UNCHANGED <<prPc, prResult, prRemote>>
        ELSE IF ~res.ok THEN
          /\ UNCHANGED <<prReqs, prRemote>>
          /\ Finish(ResponseWithDetails(res.status, "Failed to create branch",
                                        "createBranch"))
        ELSE
          /\ prRemote' = [prRemote EXCEPT !.branchCreated = TRUE]
          /\ prReqs' = Append(prReqs,
                         Request("checkFile", prLocal.newBranch, "", FALSE))
          /\ prPc' = "checkFile"
          /\ prResult' = prResult
  /\ UNCHANGED prLocal

\* step 2 answered: map the failure, or issue step 3
CreateBranchResponse(r) ==
  /\ prPc = "createBranch"
  /\ UNCHANGED <<fVars, rdVars, restVars>>
  /\ LET res == githubFetch(r) IN
     /\ prOutcomes' = Append(prOutcomes, Outcome(res))
     /\ prStatuses' = Append(prStatuses, res.status)
     /\ UNCHANGED prEvent
     /\ IF res.thrown THEN
          /\ Finish(InternalError)
          /\ UNCHANGED <<prReqs, prRemote>>
        ELSE IF ~res.ok THEN
          /\ UNCHANGED <<prReqs, prRemote>>
          /\ IF res.status = 422 THEN
               Finish(Response(422, "Branch already exists or invalid reference"))
             ELSE
               Finish(ResponseWithDetails(res.status, "Failed to create branch",
                                          "createBranch"))
        ELSE
          /\ prRemote' = [prRemote EXCEPT !.branchCreated = TRUE]
          /\ prReqs' = Append(prReqs,
                         Request("checkFile", prLocal.newBranch, "", FALSE))
          /\ prPc' = "checkFile"
          /\ prResult' = prResult
  /\ UNCHANGED prLocal

\* step 3 with the file written to the base branch
CheckFileResponseOnBase(r) ==
  /\ prPc = "checkFile"
  /\ UNCHANGED <<fVars, rdVars, restVars>>
  /\ LET res == githubFetch(r)
         \* fileCheckResult.data.sha: undefined on a text body
         fileSha == res.ok /\ res.json
     IN
     /\ prOutcomes' = Append(prOutcomes, Outcome(res))
     /\ prStatuses' = Append(prStatuses, res.status)
     /\ UNCHANGED prEvent
     /\ IF res.thrown THEN
          /\ Finish(InternalError)
          /\ UNCHANGED <<prReqs, prLocal>>
        ELSE IF prLocal.content # "string" THEN
          \* Buffer.from(content, "utf-8") throws on a non-string content
          /\ Finish(InternalError)
          /\ prLocal' = [prLocal EXCEPT !.fileSha = fileSha]
          /\ UNCHANGED prReqs
        ELSE
          /\ prLocal' = [prLocal EXCEPT !.fileSha = fileSha]
          /\ prReqs' = Append(prReqs,
                         Request("writeFile", prLocal.baseBranch, "", fileSha))
          /\ prPc' = "writeFile"
          /\ prResult' = prResult
  /\ UNCHANGED prRemote

\* step 3 with a cleanup delete when the content cannot be encoded
CheckFileResponseCleanup(r) ==
  /\ prPc = "checkFile"
  /\ UNCHANGED <<fVars, rdVars, restVars>>
  /\ LET res == githubFetch(r)
         \* fileCheckResult.data.sha: undefined on a text body
         fileSha == res.ok /\ res.json
     IN
     /\ prOutcomes' = Append(prOutcomes, Outcome(res))
     /\ prStatuses' = Append(prStatuses, res.status)
     /\ UNCHANGED prEvent
     /\ IF res.thrown THEN
          /\ Finish(InternalError)
          /\ UNCHANGED <<prReqs, prLocal>>
        ELSE IF prLocal.content # "string" THEN
          \* Buffer.from(content, "utf-8") throws on a non-string content
          /\ prLocal' = [prLocal EXCEPT !.fileSha = fileSha]
          /\ prReqs' = Append(prReqs,
                         Request("deleteBranch", prLocal.newBranch, "", FALSE))
          /\ prPc' = "cleanup"
          /\ prResult' = prResult
        ELSE
          /\ prLocal' = [prLocal EXCEPT !.fileSha = fileSha]
          /\ prReqs' = Append(prReqs,
                         Request("writeFile", prLocal.newBranch, "", fileSha))
          /\ prPc' = "writeFile"
          /\ prResult' = prResult
  /\ UNCHANGED prRemote

\* step 3 answered: remember the sha if found, encode the content, issue step 4
CheckFileResponse(r) ==
  /\ prPc = "checkFile"
  /\ UNCHANGED <<fVars, rdVars, restVars>>
  /\ LET res == githubFetch(r)
         \* fileCheckResult.data.sha: undefined on a text body
         fileSha == res.ok /\ res.json
     IN
     /\ prOutcomes' = Append(prOutcomes, Outcome(res))
     /\ prStatuses' = Append(prStatuses, res.status)
     /\ UNCHANGED prEvent
     /\ IF res.thrown THEN
          /\ Finish(InternalError)
          /\ UNCHANGED <<prReqs, prLocal>>
        ELSE IF prLocal.content # "string" THEN
          \* Buffer.from(content, "utf-8") throws on a non-string content
          /\ Finish(InternalError)
          /\ prLocal' = [prLocal EXCEPT !.fileSha = fileSha]
          /\ UNCHANGED prReqs
        ELSE
          /\ prLocal' = [prLocal EXCEPT !.fileSha = fileSha]
          /\ prReqs' = Append(prReqs,
                         Request("writeFile", prLocal.newBranch, "", fileSha))
          /\ prPc' = "writeFile"
          /\ prResult' = prResult
  /\ UNCHANGED prRemote

\* step 4 answered: on a failure status issue the cleanup delete, else step 5
WriteFileResponse(r) ==
  /\ prPc = "writeFile"
  /\ UNCHANGED <<fVars, rdVars, restVars>>
  /\ LET res == githubFetch(r) IN
     /\ prOutcomes' = Append(prOutcomes, Outcome(res))
     /\ prStatuses' = Append(prStatuses, res.status)
     /\ UNCHANGED prEvent
     /\ IF res.thrown THEN
          /\ Finish(InternalError)
          /\ UNCHANGED <<prReqs, prLocal, prRemote>>
        ELSE IF ~res.ok THEN
          /\ prLocal' = [prLocal EXCEPT !.updateStatus = res.status]
          /\ prReqs' = Append(prReqs,
                         Request("deleteBranch", prLocal.newBranch, "", FALSE))
          /\ prPc' = "cleanup"
          /\ prResult' = prResult
          /\ UNCHANGED prRemote
        ELSE
          /\ prLocal' = [prLocal EXCEPT !.updateStatus = res.status]
          /\ prRemote' = [prRemote EXCEPT !.fileWritten = TRUE]
          /\ prReqs' = Append(prReqs,
                         Request("createPR", prLocal.newBranch,
                                 prLocal.baseBranch, FALSE))
          /\ prPc' = "createPR"
          /\ prResult' = prResult

\* cleanup delete answered: return the step-4 error
CleanupResponse(r) ==
  /\ prPc = "cleanup"
  /\ UNCHANGED <<fVars, rdVars, restVars>>
  /\ LET res == githubFetch(r) IN
     /\ prOutcomes' = Append(prOutcomes, Outcome(res))
     /\ prStatuses' = Append(prStatuses, res.status)
     /\ UNCHANGED prEvent
     /\ IF res.thrown THEN
          Finish(InternalError)
        ELSE
          Finish(ResponseWithDetails(prLocal.updateStatus,
                                     "Failed to update README file", "writeFile"))
     /\ prRemote' = [prRemote EXCEPT !.branchDeleted = res.ok]
  /\ UNCHANGED <<prReqs, prLocal>>

\* step 5 with the `!prResult.ok` branch missing: success whatever the status
CreatePRResponseNoFailure(r) ==
  /\ prPc = "createPR"
  /\ UNCHANGED <<fVars, rdVars, restVars>>
  /\ LET res == githubFetch(r) IN
     /\ prOutcomes' = Append(prOutcomes, Outcome(res))
     /\ prStatuses' = Append(prStatuses, res.status)
     /\ UNCHANGED prEvent
     /\ IF res.thrown THEN
          Finish(InternalError)
        ELSE
          Finish([Response(200, "") EXCEPT !.success = TRUE, !.prUrl = res.json])
  /\ UNCHANGED <<prReqs, prLocal, prRemote>>

\* step 5 answered: the failure, or success with the PR url and number
CreatePRResponse(r) ==
  /\ prPc = "createPR"
  /\ UNCHANGED <<fVars, rdVars, restVars>>
  /\ LET res == githubFetch(r) IN
     /\ prOutcomes' = Append(prOutcomes, Outcome(res))
     /\ prStatuses' = Append(prStatuses, res.status)
     /\ UNCHANGED prEvent
     /\ IF res.thrown THEN
          Finish(InternalError)
        ELSE IF ~res.ok THEN
          Finish(ResponseWithDetails(res.status, "Failed to create pull request",
                                     "createPR"))
        ELSE
          Finish([Response(200, "") EXCEPT !.success = TRUE, !.prUrl = res.json])
  /\ UNCHANGED <<prReqs, prLocal, prRemote>>

PrNext ==
  \/ \E ev \in Events : Invoke(ev)
  \/ \E r \in GhResponses : GetRefResponse(r)
  \/ \E r \in GhResponses : CreateBranchResponse(r)
  \/ \E r \in GhResponses : CheckFileResponse(r)
  \/ \E r \in GhResponses : WriteFileResponse(r)
  \/ \E r \in GhResponses : CleanupResponse(r)
  \/ \E r \in GhResponses : CreatePRResponse(r)


(***************************************************************************)
(* fetch client: inputs                                                    *)
(***************************************************************************)
Calls == 1..NumCalls

\* rateLimit.reset = null
Null == -1
\* `let rateLimit = { remaining: 6, ... }`
InitialRemaining == 6
\* `retries = 2`
DefaultRetries == 2
\* `setTimeout(resolve, 1000)`
BackoffMs == 1000

MaxTime == MaxTicks * BackoffMs

\* headers.get(name) of an absent header
NoHeader == "null"

\* values of x-ratelimit-remaining and of x-ratelimit-reset (epoch seconds)
RemainingHeaders == {NoHeader, "0", "5"}
ResetHeaders == {NoHeader, "2"}

FetchStatuses == {200, 401, 403, 404, 422, 500, 503}

\* what fetch() does for one request of the client: it rejects with a
\* TypeError (network failure), or resolves with a response
FetchResponses ==
  [ kind : {"resp"}, status : FetchStatuses, remaining : RemainingHeaders,
    reset : ResetHeaders, json : BOOLEAN ]
    \cup {[ kind |-> "throw", status |-> 0, remaining |-> NoHeader,
            reset |-> NoHeader, json |-> FALSE ]}

\* the responses drawn for calls in flight together: an OK response (the
\* call ends on receipt), a server error (body read, then backoff and retry)
\* and the network failure, with every header combination
FanOutResponses ==
  {r \in FetchResponses :
     r.kind = "resp" => (r.status \in {200, 503} /\ r.json)}

NoResp == [status |-> 0, remaining |-> NoHeader, json |-> FALSE]

NoHdrs == [seen |-> FALSE, remaining |-> NoHeader, reset |-> NoHeader]

(***************************************************************************)
(* fetch client: helpers                                                   *)
(***************************************************************************)
\* parseInt(s, 10) of a header made of digits
parseInt(s) ==
  CASE s = "0" -> 0 [] s = "1" -> 1 [] s = "2" -> 2
    [] s = "3" -> 3 [] s = "4" -> 4 [] s = "5" -> 5

\* updateRateLimit mutated field by field: an absent reset header keeps the
\* reset of an earlier response
updateRateLimitKeepReset(rl, h) ==
  IF h.remaining # NoHeader
  THEN [ remaining |-> parseInt(h.remaining),
         reset     |-> IF h.reset # NoHeader THEN parseInt(h.reset) * 1000
                       ELSE rl.reset ]
  ELSE rl

\* updateRateLimit: the rateLimit object after a response with headers h
updateRateLimit(rl, h) ==
  IF h.remaining # NoHeader
  THEN [ remaining |-> parseInt(h.remaining),
         reset     |-> IF h.reset # NoHeader THEN parseInt(h.reset) * 1000
                       ELSE Null ]
  ELSE rl

\* the check without the comparison against the clock
RateLimitExceededNoClock(rl, t) ==
  rl.remaining <= 0 /\ rl.reset # Null

\* the check before a request: remaining <= 0, a reset time, not yet reached
RateLimitExceeded(rl, t) ==
  rl.remaining <= 0 /\ rl.reset # Null /\ t < rl.reset

Pending == [state |-> "pending", kind |-> "none", status |-> 0, attempt |-> 0]

Resolved(n) == [state |-> "ok", kind |-> "none", status |-> 200, attempt |-> n]

Thrown(kind, status, n) ==
  [state |-> "error", kind |-> kind, status |-> status, attempt |-> n]

\* the error for a non-OK response whose body was read (lines 109-144), or
\* "retry" for a server error with retries left
MapStatus(status, remainingHeader, retries) ==
  IF status = 404 THEN "NotFound"
  ELSE IF status = 403 THEN
    IF remainingHeader = "0" THEN "RateLimited403" ELSE "Forbidden"
  ELSE IF status = 401 THEN "Unauthorized"
  ELSE IF status >= 500 /\ retries > 0 THEN "retry"
  ELSE "ApiError"

(***************************************************************************)
(* fetch client: fetchWithRateLimit, one action per segment between awaits *)
(***************************************************************************)
FInit ==
  /\ rateLimit = [remaining |-> InitialRemaining, reset |-> Null]
  /\ now = 0
  /\ fPc = [c \in Calls |-> "idle"]
  /\ fRetries = [c \in Calls |-> DefaultRetries]
  /\ fNet = [c \in Calls |-> 0]
  /\ fResp = [c \in Calls |-> NoResp]
  /\ fWake = [c \in Calls |-> 0]
  /\ fResult = [c \in Calls |-> Pending]
  /\ lastHdrs = NoHdrs
  /\ lastRated = NoHdrs

\* entry of one invocation of fetchWithRateLimit(url, options, retries) by
\* call c: the rate-limit check, then the request
Enter(c, retries) ==
  IF RateLimitExceeded(rateLimit, now)
  THEN [ pc |-> "done", net |-> fNet[c], retries |-> retries,
         result |-> Thrown("RateLimitedWait", 0, fNet[c]) ]
  ELSE [ pc |-> "inflight", net |-> fNet[c] + 1, retries |-> retries,
         result |-> Pending ]

\* a set S of calls is started in one synchronous segment (one call site, or
\* the config-file fan-out, whose map() runs every call up to its first await)
StartCalls(S) ==
  /\ S # {}
  /\ \A c \in S : fPc[c] = "idle"
  /\ fPc' = [c \in Calls |-> IF c \in S THEN Enter(c, DefaultRetries).pc ELSE fPc[c]]
  /\ fNet' = [c \in Calls |-> IF c \in S THEN Enter(c, DefaultRetries).net ELSE fNet[c]]
  /\ fResult' = [c \in Calls |->
                   IF c \in S THEN Enter(c, DefaultRetries).result ELSE fResult[c]]
  /\ UNCHANGED <<rateLimit, now, fRetries, fResp, fWake, lastHdrs, lastRated>>
  /\ UNCHANGED <<prVars, rdVars, restVars>>

\* the catch block (lines 148-158) for a TypeError raised in attempt fNet[c]
CatchTypeError(c, kind) ==
  IF fRetries[c] > 0
  THEN /\ fPc' = [fPc EXCEPT ![c] = "backoff"]
       /\ fWake' = [fWake EXCEPT ![c] = now + BackoffMs]
       /\ UNCHANGED fResult
  ELSE /\ fPc' = [fPc EXCEPT ![c] = "done"]
       /\ fResult' = [fResult EXCEPT ![c] = Thrown(kind, 0, fNet[c])]
       /\ UNCHANGED fWake

\* the response handled with updateRateLimit called for OK responses only
ReceiveSkipErrUpdate(c, r) ==
  /\ fPc[c] = "inflight"
  /\ IF r.kind = "throw" THEN
       /\ CatchTypeError(c, "NetworkError")
       /\ UNCHANGED <<rateLimit, lastHdrs, lastRated, fResp>>
     ELSE
       /\ rateLimit' = IF Ok(r.status) THEN updateRateLimit(rateLimit, r)
                       ELSE rateLimit
       /\ lastHdrs' = [seen |-> TRUE, remaining |-> r.remaining, reset |-> r.reset]
       /\ lastRated' = IF r.remaining # NoHeader
                       THEN [seen |-> TRUE, remaining |-> r.remaining,
                             reset |-> r.reset]
                       ELSE lastRated
       /\ IF Ok(r.status) THEN
            \* return response.json(): not awaited, a rejection is not caught
            /\ fPc' = [fPc EXCEPT ![c] = "done"]
            /\ fResult' = [fResult EXCEPT ![c] =
                             IF r.json THEN Resolved(fNet[c])
                             ELSE Thrown("SyntaxError", r.status, fNet[c])]
            /\ UNCHANGED <<fResp, fWake>>
          ELSE
            /\ fPc' = [fPc EXCEPT ![c] = "errbody"]
            /\ fResp' = [fResp EXCEPT ![c] =
                           [status |-> r.status, remaining |-> r.remaining,
                            json |-> r.json]]
            /\ UNCHANGED <<fResult, fWake>>
  /\ UNCHANGED <<now, fRetries, fNet>>
  /\ UNCHANGED <<prVars, rdVars, restVars>>

\* `await fetch(...)` settles for call c
Receive(c, r) ==
  /\ fPc[c] = "inflight"
  /\ IF r.kind = "throw" THEN
       /\ CatchTypeError(c, "NetworkError")
       /\ UNCHANGED <<rateLimit, lastHdrs, lastRated, fResp>>
     ELSE
       /\ rateLimit' = updateRateLimit(rateLimit, r)
       /\ lastHdrs' = [seen |-> TRUE, remaining |-> r.remaining, reset |-> r.reset]
       /\ lastRated' = IF r.remaining # NoHeader
                       THEN [seen |-> TRUE, remaining |-> r.remaining,
                             reset |-> r.reset]
                       ELSE lastRated
       /\ IF Ok(r.status) THEN
            \* return response.json(): not awaited, a rejection is not caught
            /\ fPc' = [fPc EXCEPT ![c] = "done"]
            /\ fResult' = [fResult EXCEPT ![c] =
                             IF r.json THEN Resolved(fNet[c])
                             ELSE Thrown("SyntaxError", r.status, fNet[c])]
            /\ UNCHANGED <<fResp, fWake>>
          ELSE
            /\ fPc' = [fPc EXCEPT ![c] = "errbody"]
            /\ fResp' = [fResp EXCEPT ![c] =
                           [status |-> r.status, remaining |-> r.remaining,
                            json |-> r.json]]
            /\ UNCHANGED <<fResult, fWake>>
  /\ UNCHANGED <<now, fRetries, fNet>>
  /\ UNCHANGED <<prVars, rdVars, restVars>>

\* the body of the non-OK response was read (lines 100-104): map the status
ErrorBody(c) ==
  /\ fPc[c] = "errbody"
  /\ LET resp == fResp[c]
         kind == MapStatus(resp.status, resp.remaining, fRetries[c])
     IN IF ~resp.json THEN
          \* response.json() rejects, then response.text() on the consumed
          \* body rejects with a TypeError, which the catch block handles
          CatchTypeError(c, "BodyTypeError")
        ELSE IF kind = "retry" THEN
          /\ fPc' = [fPc EXCEPT ![c] = "backoff"]
          /\ fWake' = [fWake EXCEPT ![c] = now + BackoffMs]
          /\ UNCHANGED fResult
        ELSE
          /\ fPc' = [fPc EXCEPT ![c] = "done"]
          /\ fResult' = [fResult EXCEPT ![c] = Thrown(kind, resp.status, fNet[c])]
          /\ UNCHANGED fWake
  /\ fResp' = [fResp EXCEPT ![c] = NoResp]
  /\ UNCHANGED <<rateLimit, now, fRetries, fNet, lastHdrs, lastRated>>
  /\ UNCHANGED <<prVars, rdVars, restVars>>

\* the retry without the decrement: fetchWithRateLimit(url, options, retries)
RetryKeepBudget(c) ==
  /\ fPc[c] = "backoff"
  /\ now >= fWake[c]
  /\ LET e == Enter(c, fRetries[c]) IN
     /\ fPc' = [fPc EXCEPT ![c] = e.pc]
     /\ fNet' = [fNet EXCEPT ![c] = e.net]
     /\ fRetries' = [fRetries EXCEPT ![c] = e.retries]
     /\ fResult' = [fResult EXCEPT ![c] = e.result]
  /\ fWake' = [fWake EXCEPT ![c] = 0]
  /\ UNCHANGED <<rateLimit, now, fResp, lastHdrs, lastRated>>
  /\ UNCHANGED <<prVars, rdVars, restVars>>

\* the retry with the rate-limit check left out: the request goes out
RetrySkipCheck(c) ==
  /\ fPc[c] = "backoff"
  /\ now >= fWake[c]
  /\ fPc' = [fPc EXCEPT ![c] = "inflight"]
  /\ fNet' = [fNet EXCEPT ![c] = fNet[c] + 1]
  /\ fRetries' = [fRetries EXCEPT ![c] = fRetries[c] - 1]
  /\ UNCHANGED fResult
  /\ fWake' = [fWake EXCEPT ![c] = 0]
  /\ UNCHANGED <<rateLimit, now, fResp, lastHdrs, lastRated>>
  /\ UNCHANGED <<prVars, rdVars, restVars>>

\* the backoff timer fired: fetchWithRateLimit(url, options, retries - 1)
Retry(c) ==
  /\ fPc[c] = "backoff"
  /\ now >= fWake[c]
  /\ LET e == Enter(c, fRetries[c] - 1) IN
     /\ fPc' = [fPc EXCEPT ![c] = e.pc]
     /\ fNet' = [fNet EXCEPT ![c] = e.net]
     /\ fRetries' = [fRetries EXCEPT ![c] = e.retries]
     /\ fResult' = [fResult EXCEPT ![c] = e.result]
  /\ fWake' = [fWake EXCEPT ![c] = 0]
  /\ UNCHANGED <<rateLimit, now, fResp, lastHdrs, lastRated>>
  /\ UNCHANGED <<prVars, rdVars, restVars>>

\* the caller has taken the result of call c; a later call reuses the slot
\* (the call sites of fetchRepoData run one after the other)
Return(c) ==
  /\ fPc[c] = "done"
  /\ fPc' = [fPc EXCEPT ![c] = "idle"]
  /\ fRetries' = [fRetries EXCEPT ![c] = DefaultRetries]
  /\ fNet' = [fNet EXCEPT ![c] = 0]
  /\ fResult' = [fResult EXCEPT ![c] = Pending]
  /\ UNCHANGED <<rateLimit, now, fResp, fWake, lastHdrs, lastRated>>
  /\ UNCHANGED <<prVars, rdVars, restVars>>

\* time passes
Tick ==
  /\ now + BackoffMs <= MaxTime
  /\ now' = now + BackoffMs
  /\ UNCHANGED <<rateLimit, fPc, fRetries, fNet, fResp, fWake, fResult, lastHdrs,
                 lastRated>>
  /\ UNCHANGED <<prVars, rdVars, restVars>>

\* one call at a time
FNext ==
  \/ StartCalls({1})
  \/ \E r \in FetchResponses : Receive(1, r)
  \/ ErrorBody(1)
  \/ Retry(1)
  \/ Return(1)
  \/ Tick

\* the responses of a call that fails, if at all, by server errors
ServerErrorResponses ==
  {r \in FetchResponses : r.kind = "resp" /\ r.json /\ r.status \in {200, 500, 503}}

\* one call whose attempts are answered by server errors or succeed
RetryNext ==
  \/ StartCalls({1})
  \/ \E r \in ServerErrorResponses : Receive(1, r)
  \/ ErrorBody(1)
  \/ Retry(1)
  \/ Tick

\* calls running together: the config-file fan-out
FanOutNext ==
  \/ \E S \in SUBSET Calls : StartCalls(S)
  \/ \E c \in Calls, r \in FanOutResponses : Receive(c, r)
  \/ \E c \in Calls : ErrorBody(c)
  \/ \E c \in Calls : Retry(c)
  \/ Tick

(***************************************************************************)
(* aggregator: inputs                                                      *)
(***************************************************************************)
\* the allow-list `configPaths`, in its order
ConfigPaths ==
  << "package.json", "requirements.txt", "Cargo.toml", "pyproject.toml",
     "go.mod", "composer.json", "Gemfile", "pom.xml", "build.gradle",
     "setup.py", "CMakeLists.txt", "Makefile" >>

\* `.slice(0, 150)` of the blob paths, `.slice(0, 50)` of the tree paths
FilesCap == 150
DirsCap == 50

\* the manifests a repository of the model may hold at its root: one per call
Manifests == {ConfigPaths[c] : c \in Calls}

Item(path, type) == [path |-> path, type |-> type]

\* items of a tree response other than root manifests: a directory, a file
\* in it, and a manifest name below the root
OtherItems ==
  << Item("src", "tree"), Item("src/index.js", "blob"),
     Item("src/package.json", "blob") >>

\* the root manifests of S as blob items, in allow-list order from call c on
RECURSIVE ManifestItems(_, _)
ManifestItems(S, c) ==
  IF c > NumCalls THEN << >>
  ELSE IF ConfigPaths[c] \in S
       THEN <<Item(ConfigPaths[c], "blob")>> \o ManifestItems(S, c + 1)
       ELSE ManifestItems(S, c + 1)

\* a tree of more directories and more files than the lists keep, with a
\* manifest as its last file
LongTree ==
  [i \in 1..(DirsCap + 1) |-> Item("d" \o ToString(i), "tree")]
    \o [i \in 1..FilesCap |-> Item("f" \o ToString(i), "blob")]
    \o <<Item(ConfigPaths[1], "blob")>>

\* JSON bodies of the git/trees response: without a `tree` field, a tree
\* holding any set of the root manifests, or the long tree
TreeBodies ==
  {[hasTree |-> FALSE, tree |-> << >>], [hasTree |-> TRUE, tree |-> LongTree]}
    \cup {[hasTree |-> TRUE, tree |-> OtherItems \o ManifestItems(S, 1)] :
            S \in SUBSET Manifests}

\* JSON bodies of a contents response: `content` is base64 text of the given
\* length (0: absent or empty), which decodes to valid UTF-8 or does not
FileBodies ==
  [content : {0, 8}, utf8 : BOOLEAN]
    \cup {[content |-> 2668, utf8 |-> TRUE]}

\* the responses drawn for the requests of the aggregator
RepoResponses ==
  {r \in FetchResponses :
     r.kind = "resp" =>
       /\ r.status \in {200, 404, 503}
       /\ r.json
       /\ <<r.remaining, r.reset>> \in {<<NoHeader, NoHeader>>, <<"0", "2">>}}

\* the responses drawn for the config-file requests, which run together: OK,
\* not found, and the network failure (retried after the backoff)
ConfigResponses == {r \in RepoResponses : r.status # 503}

(***************************************************************************)
(* aggregator: helpers                                                     *)
(***************************************************************************)
Min(a, b) == IF a <= b THEN a ELSE b

\* slice without its end argument: the whole list
SliceAll(seq, n) == seq

\* seq.slice(0, n)
Slice(seq, n) == SubSeq(seq, 1, Min(n, Len(seq)))

\* seq.filter(item => item.type === type).map(item => item.path), over the
\* items lo..hi of the tree
RECURSIVE PathsBetween(_, _, _, _)
PathsBetween(tree, type, lo, hi) ==
  IF lo > hi THEN << >>
  ELSE IF lo = hi THEN
    IF tree[lo].type = type THEN <<tree[lo].path>> ELSE << >>
  ELSE LET mid == (lo + hi) \div 2
       IN PathsBetween(tree, type, lo, mid) \o PathsBetween(tree, type, mid + 1, hi)

PathsOfType(tree, type) == PathsBetween(tree, type, 1, Len(tree))

\* files.includes(path)
Includes(seq, x) == \E i \in 1..Len(seq) : seq[i] = x

\* the call that fetches allow-list entry number c
MatchingCalls(files) == {c \in 1..Len(ConfigPaths) : Includes(files, ConfigPaths[c])}

\* configPaths.filter(path => files.includes(path)), from entry c on
RECURSIVE MatchingPaths(_, _)
MatchingPaths(files, c) ==
  IF c > Len(ConfigPaths) THEN << >>
  ELSE IF Includes(files, ConfigPaths[c])
       THEN <<ConfigPaths[c]>> \o MatchingPaths(files, c + 1)
       ELSE MatchingPaths(files, c + 1)

\* what fetchFileContent returned: null (with the branch that returned it)
\* or the decoded text, by its length
NullContent(why) == [state |-> "null", len |-> 0, why |-> why]
NotFetched == [state |-> "none", len |-> 0, why |-> "none"]
AwaitedContent == [state |-> "pending", len |-> 0, why |-> "none"]
Text(n) == [state |-> "text", len |-> n, why |-> "none"]

\* decodeBase64: the decoded text of n base64 characters; with Buffer
\* invalid UTF-8 decodes to replacement characters, without it
\* decodeURIComponent throws
decodeBase64(body, hasBuffer) ==
  IF hasBuffer \/ body.utf8
  THEN [thrown |-> FALSE, len |-> (body.content \div 4) * 3]
  ELSE [thrown |-> TRUE, len |-> 0]

\* fetchFileContent: the decoded content, or null when the call failed, the
\* response has no content, or decoding threw
fetchFileContent(res, body, hasBuffer) ==
  IF res.state = "error" THEN NullContent("failed")
  ELSE IF body.content = 0 THEN NullContent("empty")
  ELSE IF decodeBase64(body, hasBuffer).thrown THEN NullContent("undecodable")
  ELSE Text(decodeBase64(body, hasBuffer).len)

NoConfig == [p \in {} |-> 0]

NoSnapshot ==
  [ state |-> "none", kind |-> "none", status |-> 0, files |-> << >>,
    directories |-> << >>, configFiles |-> NoConfig ]

\* `throw error` of the outer catch
Failure(res) ==
  [ state |-> "error", kind |-> res.kind, status |-> res.status, files |-> << >>,
    directories |-> << >>, configFiles |-> NoConfig ]

Snapshot(files, directories, configFiles) ==
  [ state |-> "snapshot", kind |-> "none", status |-> 0, files |-> files,
    directories |-> directories, configFiles |-> configFiles ]

\* how a finished call ended, as the caller sees it
Ended(res) == [state |-> res.state, kind |-> res.kind, status |-> res.status]

\* the rate-limit check and the request of a call started now
Started ==
  IF RateLimitExceeded(rateLimit, now)
  THEN [pc |-> "done", net |-> 0, result |-> Thrown("RateLimitedWait", 0, 0)]
  ELSE [pc |-> "inflight", net |-> 1, result |-> Pending]

\* the continuation of an await of the aggregator: the results of T are
\* taken and the calls of S are started, each up to its first await
Await(T, S) ==
  /\ fPc' = [c \in Calls |-> IF c \in S THEN Started.pc
                             ELSE IF c \in T THEN "idle" ELSE fPc[c]]
  /\ fNet' = [c \in Calls |-> IF c \in S THEN Started.net
                              ELSE IF c \in T THEN 0 ELSE fNet[c]]
  /\ fResult' = [c \in Calls |-> IF c \in S THEN Started.result
                                 ELSE IF c \in T THEN Pending ELSE fResult[c]]
  /\ fRetries' = [c \in Calls |-> IF c \in S \cup T THEN DefaultRetries
                                  ELSE fRetries[c]]
  /\ UNCHANGED <<rateLimit, now, fResp, fWake, lastHdrs, lastRated>>

(***************************************************************************)
(* aggregator: fetchRepoData, one action per segment between two awaits    *)
(***************************************************************************)
RdInit ==
  /\ rdPc = "idle"
  /\ rdStages = << >>
  /\ rdCalls = << >>
  /\ rdOut = << >>
  /\ rdFiles = << >>
  /\ rdDirs = << >>
  /\ rdTree = << >>
  /\ rdContent = [c \in Calls |-> NotFetched]
  /\ rdResult = NoSnapshot

\* entry of fetchRepoData up to the await of the repository call
RdStart ==
  /\ rdPc = "idle"
  /\ fPc[1] = "idle"
  /\ rdStages' = Append(rdStages, "Fetching repository info...")
  /\ rdCalls' = Append(rdCalls, "repo")
  /\ Await({}, {1})
  /\ rdPc' = "repo"
  /\ UNCHANGED <<rdOut, rdFiles, rdDirs, rdTree, rdContent, rdResult>>
  /\ UNCHANGED <<prVars, restVars>>

\* the repository call with onStageChange("Fetching languages...") moved
\* before the check of its result
RdRepoDoneLabelFirst ==
  /\ rdPc = "repo"
  /\ fPc[1] = "done"
  /\ rdOut' = Append(rdOut, Ended(fResult[1]))
  /\ rdStages' = Append(rdStages, "Fetching languages...")
  /\ IF fResult[1].state = "error" THEN
       /\ rdResult' = Failure(fResult[1])
       /\ rdPc' = "done"
       /\ Await({1}, {})
       /\ UNCHANGED rdCalls
     ELSE
       /\ rdCalls' = Append(rdCalls, "languages")
       /\ Await({}, {1})
       /\ rdPc' = "languages"
       /\ UNCHANGED rdResult
  /\ UNCHANGED <<rdFiles, rdDirs, rdTree, rdContent>>
  /\ UNCHANGED <<prVars, restVars>>

\* the repository call settled: rethrow its error, or start the languages call
RdRepoDone ==
  /\ rdPc = "repo"
  /\ fPc[1] = "done"
  /\ rdOut' = Append(rdOut, Ended(fResult[1]))
  /\ IF fResult[1].state = "error" THEN
       /\ rdResult' = Failure(fResult[1])
       /\ rdPc' = "done"
       /\ Await({1}, {})
       /\ UNCHANGED <<rdStages, rdCalls>>
     ELSE
       /\ rdStages' = Append(rdStages, "Fetching languages...")
       /\ rdCalls' = Append(rdCalls, "languages")
       /\ Await({}, {1})
       /\ rdPc' = "languages"
       /\ UNCHANGED rdResult
  /\ UNCHANGED <<rdFiles, rdDirs, rdTree, rdContent>>
  /\ UNCHANGED <<prVars, restVars>>

\* the languages call with its error swallowed: the run goes on to the tree
RdLanguagesDoneSwallow ==
  /\ rdPc = "languages"
  /\ fPc[1] = "done"
  /\ rdOut' = Append(rdOut, Ended(fResult[1]))
  /\ rdStages' = Append(rdStages, "Analyzing file structure...")
  /\ rdCalls' = Append(rdCalls, "tree")
  /\ Await({}, {1})
  /\ rdPc' = "tree"
  /\ UNCHANGED rdResult
  /\ UNCHANGED <<rdFiles, rdDirs, rdTree, rdContent>>
  /\ UNCHANGED <<prVars, restVars>>

\* the languages call settled: rethrow its error, or start the tree call
RdLanguagesDone ==
  /\ rdPc = "languages"
  /\ fPc[1] = "done"
  /\ rdOut' = Append(rdOut, Ended(fResult[1]))
  /\ IF fResult[1].state = "error" THEN
       /\ rdResult' = Failure(fResult[1])
       /\ rdPc' = "done"
       /\ Await({1}, {})
       /\ UNCHANGED <<rdStages, rdCalls>>
     ELSE
       /\ rdStages' = Append(rdStages, "Analyzing file structure...")
       /\ rdCalls' = Append(rdCalls, "tree")
       /\ Await({}, {1})
       /\ rdPc' = "tree"
       /\ UNCHANGED rdResult
  /\ UNCHANGED <<rdFiles, rdDirs, rdTree, rdContent>>
  /\ UNCHANGED <<prVars, restVars>>

\* the tree call with the inner try/catch missing: its error is rethrown
RdTreeDoneRethrow(body) ==
  /\ rdPc = "tree"
  /\ fPc[1] = "done"
  /\ rdOut' = Append(rdOut, Ended(fResult[1]))
  /\ IF fResult[1].state = "error" THEN
       /\ rdResult' = Failure(fResult[1])
       /\ rdPc' = "done"
       /\ Await({1}, {})
       /\ UNCHANGED <<rdStages, rdCalls, rdFiles, rdDirs, rdTree, rdContent>>
     ELSE
       LET got   == body.hasTree
           files == IF got THEN Slice(PathsOfType(body.tree, "blob"), FilesCap)
                    ELSE << >>
           dirs  == IF got THEN Slice(PathsOfType(body.tree, "tree"), DirsCap)
                    ELSE << >>
           S     == MatchingCalls(files)
       IN /\ rdFiles' = files
          /\ rdDirs' = dirs
          /\ rdTree' = IF got THEN body.tree ELSE << >>
          /\ rdStages' = Append(rdStages, "Reading config files...")
          /\ rdCalls' = rdCalls \o MatchingPaths(files, 1)
          /\ rdContent' = [c \in Calls |-> IF c \in S THEN AwaitedContent
                                           ELSE NotFetched]
          /\ Await({1}, S)
          /\ rdPc' = "config"
          /\ UNCHANGED rdResult
  /\ UNCHANGED <<prVars, restVars>>

\* the tree call settled: keep its blobs and trees (none when it failed or
\* has no tree), then start one fetchFileContent per allow-listed file
RdTreeDone(body) ==
  /\ rdPc = "tree"
  /\ fPc[1] = "done"
  /\ rdOut' = Append(rdOut, Ended(fResult[1]))
  /\ LET got   == fResult[1].state = "ok" /\ body.hasTree
         files == IF got THEN Slice(PathsOfType(body.tree, "blob"), FilesCap)
                  ELSE << >>
         dirs  == IF got THEN Slice(PathsOfType(body.tree, "tree"), DirsCap)
                  ELSE << >>
         S     == MatchingCalls(files)
     IN /\ rdFiles' = files
        /\ rdDirs' = dirs
        /\ rdTree' = IF got THEN body.tree ELSE << >>
        /\ rdStages' = Append(rdStages, "Reading config files...")
        /\ rdCalls' = rdCalls \o MatchingPaths(files, 1)
        /\ rdContent' = [c \in Calls |-> IF c \in S THEN AwaitedContent
                                         ELSE NotFetched]
        /\ Await({1}, S)
  /\ rdPc' = "config"
  /\ UNCHANGED rdResult
  /\ UNCHANGED <<prVars, restVars>>

\* the call of one fetchFileContent settled: its content, or null; whether
\* Buffer is defined is a property of the build
RdFileDone(c, body, hasBuffer) ==
  /\ rdPc = "config"
  /\ rdContent[c] = AwaitedContent
  /\ fPc[c] = "done"
  /\ rdContent' = [rdContent EXCEPT
                     ![c] = fetchFileContent(fResult[c], body, hasBuffer)]
  /\ Await({c}, {})
  /\ UNCHANGED <<rdPc, rdStages, rdCalls, rdOut, rdFiles, rdDirs, rdTree, rdResult>>
  /\ UNCHANGED <<prVars, restVars>>

\* the files whose content is kept: `if (content) configFiles[path] = content`
Collected(content) ==
  {ConfigPaths[c] : c \in {d \in Calls : content[d].state = "text"
                                          /\ content[d].len > 0}}

SlotOf(path) == CHOOSE c \in 1..Len(ConfigPaths) : ConfigPaths[c] = path

\* Promise.all resolved as soon as one fetchFileContent has settled
RdAllDoneFirstSettled ==
  /\ rdPc = "config"
  /\ \/ \A c \in Calls : rdContent[c] = NotFetched
     \/ \E c \in Calls : rdContent[c] \notin {NotFetched, AwaitedContent}
  /\ rdResult' = Snapshot(rdFiles, rdDirs,
                          [p \in Collected(rdContent) |-> rdContent[SlotOf(p)].len])
  /\ rdPc' = "done"
  /\ UNCHANGED <<rdStages, rdCalls, rdOut, rdFiles, rdDirs, rdTree, rdContent>>
  /\ UNCHANGED <<fVars, prVars, restVars>>

\* Promise.all resolved: collect the contents and return the snapshot
RdAllDone ==
  /\ rdPc = "config"
  /\ \A c \in Calls : rdContent[c] # AwaitedContent
  /\ rdResult' = Snapshot(rdFiles, rdDirs,
                          [p \in Collected(rdContent) |-> rdContent[SlotOf(p)].len])
  /\ rdPc' = "done"
  /\ UNCHANGED <<rdStages, rdCalls, rdOut, rdFiles, rdDirs, rdTree, rdContent>>
  /\ UNCHANGED <<fVars, prVars, restVars>>

RepoNext ==
  \/ RdStart
  \/ RdRepoDone
  \/ RdLanguagesDone
  \/ \E body \in TreeBodies : RdTreeDone(body)
  \/ \E c \in Calls, body \in FileBodies, hasBuffer \in BOOLEAN :
       RdFileDone(c, body, hasBuffer)
  \/ RdAllDone
  \/ \E r \in RepoResponses : rdPc # "config" /\ Receive(1, r)
  \/ \E c \in Calls, r \in ConfigResponses : rdPc = "config" /\ Receive(c, r)
  \/ \E c \in Calls : ErrorBody(c)
  \/ \E c \in Calls : Retry(c)
  \/ Tick

(***************************************************************************)
(* generate-readme: inputs                                                 *)
(***************************************************************************)
\* `prompt.length > 100000`
PromptLimit == 100000

\* the `prompt` field of the request body: absent, a string of n characters,
\* the number n, or an object
Prompts ==
  { [type |-> "undefined", n |-> 0], [type |-> "object", n |-> 0],
    [type |-> "number", n |-> 0], [type |-> "number", n |-> 7],
    [type |-> "string", n |-> 0], [type |-> "string", n |-> 1],
    [type |-> "string", n |-> PromptLimit],
    [type |-> "string", n |-> PromptLimit + 1] }

\* event.body: not JSON, the JSON value null, or a JSON object
GenEvents ==
  { ev \in [ httpMethod : Methods, body : {"invalid", "null", "object"},
             prompt : Prompts, apiKey : BOOLEAN ] :
      ev.body # "object" => ev.prompt.type = "undefined" }

NoGenEvent ==
  [ httpMethod |-> "none", body |-> "invalid",
    prompt |-> [type |-> "undefined", n |-> 0], apiKey |-> FALSE ]

\* bodies of a backend response: unreadable, not JSON (the parse error message
\* may hold the word "network"), the JSON value null, or a JSON object whose
\* content[0].text is missing, empty or a text
BackendBodies ==
  {"unreadable", "nonjson", "nonjsonNetwork", "null", "missing", "empty", "text"}

BackendStatuses == {200, 400, 401, 429, 500, 529}

\* what fetch() does for the backend request
BackendResponses ==
  {[kind |-> "throw", status |-> 0, body |-> "unreadable"]}
    \cup {r \in [kind : {"resp"}, status : BackendStatuses, body : BackendBodies] :
            IF Ok(r.status) THEN r.body # "unreadable"
            ELSE r.body \in {"unreadable", "nonjson"}}

NoBackendResp == [kind |-> "none", status |-> 0, body |-> "unreadable"]

(***************************************************************************)
(* generate-readme: helpers                                                *)
(***************************************************************************)
\* `!prompt` is false
Truthy(prompt) ==
  CASE prompt.type = "undefined" -> FALSE
    [] prompt.type = "object" -> TRUE
    [] prompt.type = "number" -> prompt.n # 0
    [] prompt.type = "string" -> prompt.n > 0

NoGenResult == [statusCode |-> 0, error |-> "none", text |-> "none"]

GenResponse(code, error) == [statusCode |-> code, error |-> error, text |-> "none"]

\* the outer catch: a TypeError, or a message holding "fetch" or "network",
\* counts as a network error
GenCatch(isNetworkError) ==
  IF isNetworkError THEN GenResponse(502, "Could not connect to AI service")
  ELSE GenResponse(500, "Internal server error")

\* the user message for a backend status that is not OK
UserMessage(status) ==
  IF status = 401 THEN "API authentication failed"
  ELSE IF status = 429 THEN "Rate limit exceeded. Please try again in a moment"
  ELSE IF status = 500 THEN "AI service temporarily unavailable"
  ELSE IF status = 400 THEN "Invalid request to AI service"
  ELSE "Failed to generate README"

(***************************************************************************)
(* generate-readme: the handler, one action per segment between two awaits *)
(***************************************************************************)
GenInit ==
  /\ gnPc = "idle"
  /\ gnEvent = NoGenEvent
  /\ gnSent = << >>
  /\ gnResp = NoBackendResp
  /\ gnResult = NoGenResult

GenFinish(result) ==
  /\ gnPc' = "done"
  /\ gnResult' = result

\* the entry of the handler up to the await of the backend request
Handle(ev) ==
  /\ gnEvent' = ev
  /\ UNCHANGED gnResp
  /\ IF ev.httpMethod = "OPTIONS" THEN
       GenFinish(GenResponse(204, "")) /\ UNCHANGED gnSent
     ELSE IF ev.httpMethod # "POST" THEN
       GenFinish(GenResponse(405, "Method not allowed")) /\ UNCHANGED gnSent
     ELSE IF ev.body = "invalid" THEN
       GenFinish(GenResponse(400, "Invalid JSON in request body"))
         /\ UNCHANGED gnSent
     ELSE IF ev.body = "null" THEN
       \* `const { prompt } = body` throws a TypeError on null
       GenFinish(GenCatch(TRUE)) /\ UNCHANGED gnSent
     ELSE IF ~Truthy(ev.prompt) THEN
       GenFinish(GenResponse(400, "Prompt is required")) /\ UNCHANGED gnSent
     ELSE IF ev.prompt.type # "string" THEN
       GenFinish(GenResponse(400, "Prompt must be a string")) /\ UNCHANGED gnSent
     ELSE IF ev.prompt.n > PromptLimit THEN
       GenFinish(GenResponse(400, "Prompt exceeds maximum length"))
         /\ UNCHANGED gnSent
     ELSE IF ~ev.apiKey THEN
       GenFinish(GenResponse(500, "Server configuration error: API key not configured"))
         /\ UNCHANGED gnSent
     ELSE
       /\ gnSent' = Append(gnSent, ev.prompt)
       /\ gnPc' = "backend"
       /\ UNCHANGED gnResult

\* a request that does not come from generateReadme
GenInvoke(ev) ==
  /\ gnPc = "idle"
  /\ grPc = "idle"
  /\ Handle(ev)
  /\ UNCHANGED <<grPc, grIn, grResult>>
  /\ UNCHANGED <<prVars, fVars, rdVars, uiVars, bpVars, lateVars>>

\* `await fetch(...)` of the backend request settles
GenBackend(r) ==
  /\ gnPc = "backend"
  /\ IF r.kind = "throw" THEN
       GenFinish(GenCatch(TRUE)) /\ UNCHANGED gnResp
     ELSE
       /\ gnResp' = r
       /\ gnPc' = IF Ok(r.status) THEN "body" ELSE "errtext"
       /\ UNCHANGED gnResult
  /\ UNCHANGED <<gnEvent, gnSent, grPc, grIn, grResult>>
  /\ UNCHANGED <<prVars, fVars, rdVars, uiVars, bpVars, lateVars>>

\* the text of a backend error was read (or could not be): map the status
GenErrorText ==
  /\ gnPc = "errtext"
  /\ GenFinish(GenResponse(IF gnResp.status >= 500 THEN 502 ELSE gnResp.status,
                           UserMessage(gnResp.status)))
  /\ gnResp' = NoBackendResp
  /\ UNCHANGED <<gnEvent, gnSent, grPc, grIn, grResult>>
  /\ UNCHANGED <<prVars, fVars, rdVars, uiVars, bpVars, lateVars>>

\* `await response.json()` of an OK backend response settles
GenBody ==
  /\ gnPc = "body"
  /\ IF gnResp.body \in {"nonjson", "nonjsonNetwork"} THEN
       \* a SyntaxError: a network error only by its message
       GenFinish(GenCatch(gnResp.body = "nonjsonNetwork"))
     ELSE IF gnResp.body = "null" THEN
       \* `data.model` throws a TypeError on null
       GenFinish(GenCatch(TRUE))
     ELSE
       GenFinish([statusCode |-> 200, error |-> "", text |-> gnResp.body])
  /\ gnResp' = NoBackendResp
  /\ UNCHANGED <<gnEvent, gnSent, grPc, grIn, grResult>>
  /\ UNCHANGED <<prVars, fVars, rdVars, uiVars, bpVars, lateVars>>

(***************************************************************************)
(* generateReadme (services/readme.js)                                     *)
(***************************************************************************)
\* repoData: null, without a name, or a snapshot; sections: not an array, an
\* array with no enabled entry, or with some; `long`: the compiled prompt is
\* longer than the limit of the function
GrInputs ==
  [ repoData : {"null", "noname", "valid"},
    sections : {"notarray", "none", "some"},
    includeToc : BOOLEAN, useEmojis : BOOLEAN, long : BOOLEAN ]

NoGrInput ==
  [ repoData |-> "null", sections |-> "notarray", includeToc |-> FALSE,
    useEmojis |-> FALSE, long |-> FALSE ]

NoGrResult ==
  [state |-> "none", kind |-> "none", status |-> 0, content |-> "none",
   fixed |-> FALSE]

\* `throw new Error(...)`, or a rejection that is not caught
Rejected(kind, status) ==
  [state |-> "rejected", kind |-> kind, status |-> status, content |-> "none",
   fixed |-> FALSE]

\* `return content` or `return fixTocAnchors(content)`
ResolvedWith(content, fixed) ==
  [state |-> "resolved", kind |-> "none", status |-> 0, content |-> content,
   fixed |-> fixed]

GrInit ==
  /\ grPc = "idle"
  /\ grIn = NoGrInput
  /\ grResult = NoGrResult

\* entry of generateReadme with the `enabledSections.length === 0` check
\* missing
GrStartNoEnabledCheck(in) ==
  /\ grPc = "idle"
  /\ gnPc = "idle"
  /\ grIn' = in
  /\ IF in.repoData # "valid" THEN
       /\ grResult' = Rejected("InvalidRepositoryData", 0)
       /\ grPc' = "done"
       /\ UNCHANGED <<gnPc, gnEvent, gnSent, gnResp, gnResult>>
     ELSE IF in.sections = "notarray" THEN
       /\ grResult' = Rejected("SectionsNotArray", 0)
       /\ grPc' = "done"
       /\ UNCHANGED <<gnPc, gnEvent, gnSent, gnResp, gnResult>>
     ELSE
       /\ grPc' = "waiting"
       /\ UNCHANGED <<grResult, gnPc, gnEvent, gnSent, gnResp, gnResult>>
  /\ UNCHANGED <<prVars, fVars, rdVars, uiVars, bpVars, lateVars>>

\* entry of generateReadme up to the await of the request to the function
GrStart(in) ==
  /\ grPc = "idle"
  /\ gnPc = "idle"
  /\ grIn' = in
  /\ IF in.repoData # "valid" THEN
       /\ grResult' = Rejected("InvalidRepositoryData", 0)
       /\ grPc' = "done"
       /\ UNCHANGED <<gnPc, gnEvent, gnSent, gnResp, gnResult>>
     ELSE IF in.sections = "notarray" THEN
       /\ grResult' = Rejected("SectionsNotArray", 0)
       /\ grPc' = "done"
       /\ UNCHANGED <<gnPc, gnEvent, gnSent, gnResp, gnResult>>
     ELSE IF in.sections = "none" THEN
       /\ grResult' = Rejected("NoSectionEnabled", 0)
       /\ grPc' = "done"
       /\ UNCHANGED <<gnPc, gnEvent, gnSent, gnResp, gnResult>>
     ELSE
       /\ grPc' = "waiting"
       /\ UNCHANGED <<grResult, gnPc, gnEvent, gnSent, gnResp, gnResult>>
  /\ UNCHANGED <<prVars, fVars, rdVars, uiVars, bpVars, lateVars>>

\* the request of generateReadme reaches the function, whose handler runs up
\* to its first await
GrArrive(apiKey) ==
  /\ grPc = "waiting"
  /\ gnPc = "idle"
  /\ Handle([ httpMethod |-> "POST", body |-> "object",
              prompt |-> [type |-> "string",
                          n |-> IF grIn.long THEN PromptLimit + 1
                                ELSE PromptLimit],
              apiKey |-> apiKey ])
  /\ UNCHANGED <<grPc, grIn, grResult>>
  /\ UNCHANGED <<prVars, fVars, rdVars, uiVars, bpVars, lateVars>>

\* the response of the function with the `!content` check missing
GrResponseNoCheck ==
  /\ grPc = "waiting"
  /\ gnPc = "done"
  /\ grPc' = "done"
  /\ grResult' =
       IF ~Ok(gnResult.statusCode) THEN Rejected("HttpError", gnResult.statusCode)
       ELSE ResolvedWith(gnResult.text, grIn.includeToc /\ grIn.useEmojis)
  /\ UNCHANGED <<gnPc, gnEvent, gnSent, gnResp, gnResult, grIn>>
  /\ UNCHANGED <<prVars, fVars, rdVars, uiVars, bpVars, lateVars>>

\* the response of the function arrived and its body was read
GrResponse ==
  /\ grPc = "waiting"
  /\ gnPc = "done"
  /\ grPc' = "done"
  /\ grResult' =
       IF ~Ok(gnResult.statusCode) THEN Rejected("HttpError", gnResult.statusCode)
       ELSE IF gnResult.text # "text" THEN Rejected("EmptyGeneration", 0)
       ELSE ResolvedWith("text", grIn.includeToc /\ grIn.useEmojis)
  /\ UNCHANGED <<gnPc, gnEvent, gnSent, gnResp, gnResult, grIn>>
  /\ UNCHANGED <<prVars, fVars, rdVars, uiVars, bpVars, lateVars>>

\* the request to the function fails outside the handler: fetch rejects, or
\* the platform answers 502 with a body that is not JSON
GrPlatform(kind) ==
  /\ grPc = "waiting"
  /\ grPc' = "done"
  /\ grResult' = IF kind = "reject" THEN Rejected("NetworkError", 0)
                 ELSE Rejected("HttpError", 502)
  /\ UNCHANGED <<gnPc, gnEvent, gnSent, gnResp, gnResult, grIn>>
  /\ UNCHANGED <<prVars, fVars, rdVars, uiVars, bpVars, lateVars>>

GenNext ==
  \/ \E ev \in GenEvents : GenInvoke(ev)
  \/ \E r \in BackendResponses : GenBackend(r)
  \/ GenErrorText
  \/ GenBody
  \/ \E in \in GrInputs : GrStart(in)
  \/ \E apiKey \in BOOLEAN : GrArrive(apiKey)
  \/ GrResponse
  \/ \E kind \in {"reject", "gateway"} : GrPlatform(kind)

(***************************************************************************)
(* handleCreatePR (GitHubTokenModal.jsx)                                   *)
(***************************************************************************)
\* the props of the component the handler reads
HcProps == [isAuthenticated : BOOLEAN, repoInfo : BOOLEAN]

NoHcProps == [isAuthenticated |-> FALSE, repoInfo |-> FALSE]

\* the answers of create-pr the handler tells apart: the 401 of a missing or
\* invalid session, the 401 of an expired session, other failures, a failure
\* with no error field, and the success
CreatePrAnswers ==
  { Response(401, "Not authenticated. Please sign in with GitHub."),
    SessionExpiredResponse,
    Response(400, "Missing required fields"),
    Response(403, "You don't have permission to access this repository."),
    Response(422, "Branch already exists or invalid reference"),
    InternalError,
    Response(502, ""),
    [Response(200, "") EXCEPT !.success = TRUE, !.prUrl = TRUE] }

\* what `await fetch(...)` does: it throws, or a response arrives whose body
\* is JSON or not
HcResponses ==
  {[kind |-> "throw", json |-> FALSE, data |-> NoResult]}
    \cup [kind : {"resp"}, json : BOOLEAN, data : CreatePrAnswers]

NoHcResp == [kind |-> "none", json |-> FALSE, data |-> NoResult]

UiInit ==
  /\ hcPc = "idle"
  /\ hcProps = NoHcProps
  /\ hcResp = NoHcResp
  /\ hcCreating = FALSE
  /\ hcError = ""
  /\ hcSet = << >>
  /\ hcAuth = 0
  /\ hcPrUrl = FALSE

\* catch: setError(err.message); finally: setCreating(false)
HcCatch(message) ==
  /\ hcError' = message
  /\ hcSet' = Append(hcSet, message)
  /\ hcCreating' = FALSE
  /\ hcPc' = "done"

\* a click on the button: the handler up to the await of the request; hcSet
\* and hcAuth record the error messages set and count the onAuthRequired
\* calls of this run of the handler
HcClick(props) ==
  /\ hcPc \in {"idle", "done"}
  /\ hcProps' = props
  /\ hcResp' = NoHcResp
  /\ IF ~props.isAuthenticated THEN
       /\ hcAuth' = 1
       /\ hcSet' = << >>
       /\ hcPc' = "done"
       /\ UNCHANGED <<hcCreating, hcError>>
     ELSE IF ~props.repoInfo THEN
       /\ hcError' = "Repository info not available"
       /\ hcSet' = <<"Repository info not available">>
       /\ hcAuth' = 0
       /\ hcPc' = "done"
       /\ UNCHANGED hcCreating
     ELSE
       /\ hcCreating' = TRUE
       /\ hcError' = ""
       /\ hcSet' = << >>
       /\ hcAuth' = 0
       /\ hcPc' = "fetching"
  /\ UNCHANGED hcPrUrl
  /\ UNCHANGED <<prVars, fVars, rdVars, genVars, bpVars, lateVars>>

\* the component is rendered with another readme: the effect on [readme]
\* resets prUrl and error
HcRender ==
  /\ hcPrUrl' = FALSE
  /\ hcError' = ""
  /\ UNCHANGED <<hcPc, hcProps, hcResp, hcCreating, hcSet, hcAuth>>
  /\ UNCHANGED <<prVars, fVars, rdVars, genVars, bpVars, lateVars>>

\* `await fetch(...)` settles
HcFetch(r) ==
  /\ hcPc = "fetching"
  /\ hcResp' = r
  /\ IF r.kind = "throw" THEN
       HcCatch("Failed to fetch") /\ UNCHANGED hcAuth
     ELSE
       /\ hcPc' = "parsing"
       /\ UNCHANGED <<hcCreating, hcError, hcSet, hcAuth>>
  /\ UNCHANGED <<hcProps, hcPrUrl>>
  /\ UNCHANGED <<prVars, fVars, rdVars, genVars, bpVars, lateVars>>

\* `await response.json()` settles: the rest of the handler
HcJson ==
  /\ hcPc = "parsing"
  /\ IF ~hcResp.json THEN
       HcCatch("Unexpected token") /\ UNCHANGED <<hcAuth, hcPrUrl>>
     ELSE IF ~Ok(hcResp.data.statusCode) THEN
       IF hcResp.data.sessionExpired THEN
         /\ hcAuth' = hcAuth + 1
         /\ HcCatch("Session expired. Please sign in again.")
         /\ UNCHANGED hcPrUrl
       ELSE
         /\ HcCatch(IF hcResp.data.error # "" THEN hcResp.data.error
                    ELSE "Failed to create PR")
         /\ UNCHANGED <<hcAuth, hcPrUrl>>
     ELSE
       /\ hcPrUrl' = hcResp.data.prUrl
       /\ hcCreating' = FALSE
       /\ hcPc' = "done"
       /\ UNCHANGED <<hcError, hcSet, hcAuth>>
  /\ UNCHANGED <<hcProps, hcResp>>
  /\ UNCHANGED <<prVars, fVars, rdVars, genVars, bpVars, lateVars>>

UiNext ==
  \/ \E props \in HcProps : HcClick(props)
  \/ HcRender
  \/ \E r \in HcResponses : HcFetch(r)
  \/ HcJson

(***************************************************************************)
(* buildPrompt (services/readme.js): inputs                                *)
(* A string is a sequence of pieces; a piece is a literal of the template  *)
(* or a value of the input.                                                *)
(***************************************************************************)
MaxSections == 3
MaxLanguages == 3
MaxConfigs == 2

\* the keys of sectionDescriptions, in the order of the object literal
SectionIds ==
  << "badges", "features", "installation", "usage", "techStack", "apiReference",
     "configuration", "testing", "roadmap", "faq", "contributing", "security",
     "license" >>

\* the ids the option lists of the model draw from: three known ones and one
\* sectionDescriptions has no entry for
OptionIds == {"license", "usage", "badges", "custom"}

LanguageNames == {"CSS", "HTML", "JavaScript"}

ByteCounts == {1, 2}

\* `content.length > 2000`
ConfigLimit == 2000

\* lengths of a config file's content, around the limit; the aggregator
\* keeps no file with an empty content
ContentLengths == {1, ConfigLimit, ConfigLimit + 1, ConfigLimit + 16}

\* the sequences over S of length at most n with no element twice under key
RECURSIVE DistinctSeqs(_, _, _)
DistinctSeqs(S, key, n) ==
  IF n = 0 THEN {<< >>}
  ELSE LET shorter == DistinctSeqs(S, key, n - 1)
           longest == {q \in shorter : Len(q) = n - 1}
           Fresh(q) == {x \in S : \A i \in 1..Len(q) : q[i][key] # x[key]}
       IN shorter \cup UNION {{Append(q, x) : x \in Fresh(q)} : q \in longest}

\* the section list of the options: entries {id, enabled}
SectionLists == DistinctSeqs([id : OptionIds, enabled : BOOLEAN], "id", MaxSections)

\* the languages mapping as its entries in insertion order
LanguageMaps ==
  DistinctSeqs([lang : LanguageNames, bytes : ByteCounts], "lang", MaxLanguages)

\* the configFiles mapping as its entries in insertion order; the content of
\* a file is known by its length
ConfigMaps ==
  DistinctSeqs([file : Manifests, len : ContentLengths], "file", MaxConfigs)

Tones == {"professional", "friendly", "poetic"}

\* a snapshot and options with one section, no language and no config file
DefaultInput ==
  [ described |-> TRUE,
    files |-> <<"package.json", "src/index.js">>,
    directories |-> <<"src", "src/lib">>,
    languages |-> << >>, configFiles |-> << >>,
    sections |-> <<[id |-> "usage", enabled |-> TRUE]>>,
    tone |-> "professional", badgeStyle |-> "flat", useEmojis |-> FALSE,
    includeToc |-> FALSE ]

\* the inputs of the model: each varies one part of the default input
PromptInputs ==
  {[DefaultInput EXCEPT !.sections = x] : x \in SectionLists}
    \cup {[DefaultInput EXCEPT !.languages = x] : x \in LanguageMaps}
    \cup {[DefaultInput EXCEPT !.configFiles = x] : x \in ConfigMaps}
    \cup {[DefaultInput EXCEPT !.tone = t, !.useEmojis = e, !.includeToc = c,
                               !.described = d, !.files = f, !.directories = f] :
            t \in Tones, e \in BOOLEAN, c \in BOOLEAN, d \in BOOLEAN,
            f \in {<< >>, <<"src/index.js">>}}

(***************************************************************************)
(* buildPrompt: helpers                                                    *)
(***************************************************************************)
\* array.join(sep) over pieces
RECURSIVE Join(_, _)
Join(seq, sep) ==
  IF Len(seq) = 0 THEN << >>
  ELSE IF Len(seq) = 1 THEN seq[1]
  ELSE seq[1] \o <<sep>> \o Join(Tail(seq), sep)

\* `x || fallback` for a string x
OrElse(str, fallback) == IF Len(str) = 0 THEN <<fallback>> ELSE str

\* sections.filter((s) => s.enabled).map((s) => s.id)
EnabledSections(sections) ==
  LET enabled == SelectSeq(sections, LAMBDA sec : sec.enabled)
  IN [i \in 1..Len(enabled) |-> enabled[i].id]

\* sectionDescriptions[s] is defined
Described(id) == \E k \in 1..Len(SectionIds) : SectionIds[k] = id

\* sectionDescriptions[s], named by its key
sectionDescriptions(id) == "description of " \o id

\* the requested sections in the order of the keys of sectionDescriptions
requestedSectionsCanonical(enabledSections) ==
  LET chosen == SelectSeq(SectionIds, LAMBDA id : Includes(enabledSections, id))
  IN Join([i \in 1..Len(chosen) |-> <<sectionDescriptions(chosen[i])>>], ", ")

\* enabledSections.map(s => sectionDescriptions[s]).filter(Boolean).join(", ")
requestedSections(enabledSections) ==
  LET known == SelectSeq(enabledSections, Described)
  IN Join([i \in 1..Len(known) |-> <<sectionDescriptions(known[i])>>], ", ")

\* the stable sort of the entries by (a, b) => b[1] - a[1]: x goes before
\* the first entry with fewer bytes
RECURSIVE InsertDescending(_, _)
InsertDescending(sorted, x) ==
  IF Len(sorted) = 0 THEN <<x>>
  ELSE IF Head(sorted).bytes < x.bytes THEN <<x>> \o sorted
  ELSE <<Head(sorted)>> \o InsertDescending(Tail(sorted), x)

RECURSIVE SortDescending(_)
SortDescending(entries) ==
  IF Len(entries) = 0 THEN << >>
  ELSE InsertDescending(SortDescending(SubSeq(entries, 1, Len(entries) - 1)),
                        entries[Len(entries)])

\* `${lang}: ${bytes} bytes`
LanguageEntry(e) == e.lang \o ": " \o ToString(e.bytes) \o " bytes"

\* the languages line without the sort
languageListUnsorted(languages) ==
  Join([i \in 1..Len(languages) |-> <<LanguageEntry(languages[i])>>], ", ")

\* Object.entries(languages).sort(...).map(...).join(", ")
languageList(languages) ==
  LET sorted == SortDescending(languages)
  IN Join([i \in 1..Len(sorted) |-> <<LanguageEntry(sorted[i])>>], ", ")

\* content.substring(0, n) of the content of a file
Substring(file, n) == "first " \o ToString(n) \o " characters of " \o file

\* the rendering of a config entry with the marker left out
ConfigEntryNoMarker(e) ==
  IF e.len > ConfigLimit
  THEN <<"--- ", e.file, " ---\n", Substring(e.file, ConfigLimit)>>
  ELSE <<"--- ", e.file, " ---\n", Substring(e.file, e.len)>>

\* `--- ${file} ---\n${truncated}`
ConfigEntry(e) ==
  IF e.len > ConfigLimit
  THEN <<"--- ", e.file, " ---\n", Substring(e.file, ConfigLimit),
         "\n... (truncated)">>
  ELSE <<"--- ", e.file, " ---\n", Substring(e.file, e.len)>>

\* Object.entries(configFiles).map(...).join("\n\n")
configSummary(configFiles) ==
  Join([i \in 1..Len(configFiles) |-> ConfigEntry(configFiles[i])], "\n\n")

\* f.includes("/") for the paths of the model
HasSlash(path) == path \in {"src/index.js", "src/package.json", "src/lib"}

\* paths.filter(p => !p.includes("/")).join(", ")
rootEntries(paths) ==
  LET root == SelectSeq(paths, LAMBDA path : ~HasSlash(path))
  IN Join([i \in 1..Len(root) |-> <<root[i]>>], ", ")

\* toneGuides[tone] || toneGuides.professional
getToneInstructions(tone) ==
  IF tone \in {"professional", "friendly", "technical", "minimal"}
  THEN "TONE: " \o tone ELSE "TONE: professional"

emojiInstructions(useEmojis) ==
  IF useEmojis THEN "EMOJI FORMATTING: ENABLED" ELSE "EMOJI FORMATTING: DISABLED"

\* the table-of-contents block whatever includeToc is
tocInstructionsAlways(includeToc, useEmojis) ==
  IF useEmojis THEN <<"TABLE OF CONTENTS: ENABLED (#-features)">>
  ELSE <<"TABLE OF CONTENTS: ENABLED (#features)">>

tocInstructions(includeToc, useEmojis) ==
  IF ~includeToc THEN << >>
  ELSE IF useEmojis THEN <<"TABLE OF CONTENTS: ENABLED (#-features)">>
  ELSE <<"TABLE OF CONTENTS: ENABLED (#features)">>

\* the template literal of the return statement
buildPrompt(repoData, enabledSections, tone, badgeStyle, useEmojis, includeToc) ==
  <<"REPOSITORY INFO:\n- Description: ">>
    \o (IF repoData.described THEN <<"description">>
        ELSE <<"No description provided">>)
    \o <<"\n\nLANGUAGES:\n">>
    \o OrElse(languageList(repoData.languages), "Not available")
    \o <<"\n\nROOT FILES:\n">>
    \o OrElse(rootEntries(repoData.files), "Not available")
    \o <<"\n\nTOP-LEVEL DIRECTORIES:\n">>
    \o OrElse(rootEntries(repoData.directories), "Not available")
    \o <<"\n\nCONFIG FILES:\n">>
    \o OrElse(configSummary(repoData.configFiles), "None found")
    \o <<"\n\nREQUESTED SECTIONS (in order): ">>
    \o requestedSections(enabledSections)
    \o <<"\n", getToneInstructions(tone), "BADGE STYLE: " \o badgeStyle,
          emojiInstructions(useEmojis)>>
    \o tocInstructions(includeToc, useEmojis)
    \o <<"\nINSTRUCTIONS:">>

(***************************************************************************)
(* buildPrompt: calls                                                      *)
(***************************************************************************)
NoPromptInput == [DefaultInput EXCEPT !.sections = << >>]

BpInit ==
  /\ bpIn = NoPromptInput
  /\ bpOut = << >>

\* generateReadme is called with a snapshot and options and passes its
\* checks: at least one section is enabled
BpInput(in) ==
  /\ Len(bpOut) = 0
  /\ bpIn = NoPromptInput
  /\ in # NoPromptInput
  /\ EnabledSections(in.sections) # << >>
  /\ bpIn' = in
  /\ UNCHANGED bpOut
  /\ UNCHANGED <<prVars, fVars, rdVars, genVars, uiVars, lateVars>>

\* a call of buildPrompt as generateReadme makes it
BpCall ==
  /\ bpIn # NoPromptInput
  /\ Len(bpOut) < NumCalls
  /\ bpOut' = Append(bpOut,
       [ prompt |-> buildPrompt(bpIn, EnabledSections(bpIn.sections), bpIn.tone,
                                bpIn.badgeStyle, bpIn.useEmojis,
                                bpIn.includeToc) ])
  /\ UNCHANGED bpIn
  /\ UNCHANGED <<prVars, fVars, rdVars, genVars, uiVars, lateVars>>

PromptNext ==
  \/ \E in \in PromptInputs : BpInput(in)
  \/ BpCall
  \/ Tick

(***************************************************************************)
(* generateReadme's anchor repair (services/readme.js)                     *)
(*                                                                         *)
(* A text is a sequence of non-empty lines: a header line `## text`, a     *)
(* list line with a markdown link `- [label](#anchor)`, or a line of       *)
(* prose.  Texts, labels and anchors are sequences of characters; "rocket" *)
(* stands for an emoji with emoji presentation.                            *)
(***************************************************************************)
MaxHeaderLen == 2

Chars == {"a", "B", "1", " ", "-", "!", "rocket"}

RECURSIVE CharSeqs(_)
CharSeqs(n) ==
  IF n = 0 THEN {<< >>}
  ELSE LET shorter == CharSeqs(n - 1)
       IN shorter \cup {Append(q, c) : q \in {r \in shorter : Len(r) = n - 1},
                                       c \in Chars}

HeaderTexts == CharSeqs(MaxHeaderLen) \ {<< >>}

Header(text) == [kind |-> "header", text |-> text, label |-> << >>]
Link(label, anchor) == [kind |-> "link", text |-> anchor, label |-> label]
Prose == [kind |-> "prose", text |-> <<"B", "a", " ", "a", "!">>, label |-> << >>]

\* the characters of a line
Line(item) ==
  IF item.kind = "header" THEN <<"#", "#", " ">> \o item.text
  ELSE IF item.kind = "link"
    THEN <<"-", " ", "[">> \o item.label \o <<"]", "(", "#">> \o item.text
           \o <<")">>
  ELSE item.text

\* String.prototype.toLowerCase
ToLowerCase(s) == [i \in DOMAIN s |-> IF s[i] = "B" THEN "b" ELSE s[i]]

\* the class \w, the class \s and the hyphen
IsWordChar(c) == c \in {"a", "b", "B", "1", "z"}
IsSpace(c) == c = " "

\* the classes \p{Emoji_Presentation} and \p{Emoji}: the second one holds the
\* ASCII digits and the number sign
IsEmoji(c) == c \in {"rocket", "1", "#"}

\* String.prototype.trim
RECURSIVE Trim(_)
Trim(s) ==
  IF s = << >> THEN s
  ELSE IF IsSpace(Head(s)) THEN Trim(Tail(s))
  ELSE IF IsSpace(s[Len(s)]) THEN Trim(SubSeq(s, 1, Len(s) - 1))
  ELSE s

\* .replace(/[^\w\s-]/g, "")
RemoveSpecial(s) ==
  LET keep(c) == IsWordChar(c) \/ IsSpace(c) \/ c = "-" IN SelectSeq(s, keep)

\* .replace(/\p{Emoji_Presentation}|\p{Emoji}\uFE0F?/gu, "")
RemoveEmoji(s) ==
  LET keep(c) == ~IsEmoji(c) IN SelectSeq(s, keep)

\* .replace(/\s+/g, "-"): every run of white space becomes one hyphen
RECURSIVE SpacesToHyphen(_)
SpacesToHyphen(s) ==
  IF s = << >> THEN s
  ELSE IF ~IsSpace(Head(s)) THEN <<Head(s)>> \o SpacesToHyphen(Tail(s))
  ELSE IF Len(s) > 1 /\ IsSpace(s[2]) THEN SpacesToHyphen(Tail(s))
  ELSE <<"-">> \o SpacesToHyphen(Tail(s))

\* .replace(/-+/g, "-"): every run of hyphens becomes one hyphen
RECURSIVE CollapseHyphens(_)
CollapseHyphens(s) ==
  IF s = << >> THEN s
  ELSE IF Head(s) = "-" /\ Len(s) > 1 /\ s[2] = "-"
    THEN CollapseHyphens(Tail(s))
  ELSE <<Head(s)>> \o CollapseHyphens(Tail(s))

\* .replace(/^-|-$/g, ""): a hyphen at the start and a hyphen at the end are
\* removed
StripEnds(s) ==
  LET from == IF Len(s) > 0 /\ s[1] = "-" THEN 2 ELSE 1
      to == IF Len(s) > 1 /\ s[Len(s)] = "-" THEN Len(s) - 1 ELSE Len(s)
  IN SubSeq(s, from, to)

\* readme.js 125-130
simpleAnchor(text) ==
  StripEnds(CollapseHyphens(SpacesToHyphen(RemoveSpecial(ToLowerCase(text)))))

\* readme.js 133-139
githubAnchor(text) ==
  CollapseHyphens(SpacesToHyphen(RemoveSpecial(Trim(RemoveEmoji(
    ToLowerCase(text))))))

\* the matches of /^(#{1,6})\s+(.+)$/gm from line i on, their second group
\* trimmed: the text of a header line, or, for a header line with nothing
\* but white space after the number signs, the line after it, which `\s+`
\* reaches across the line break and which is not matched again
RECURSIVE headersFrom(_, _)
headersFrom(content, i) ==
  IF i > Len(content) THEN << >>
  ELSE IF content[i].kind # "header" THEN headersFrom(content, i + 1)
  ELSE IF Trim(content[i].text) # << >>
    THEN <<Trim(content[i].text)>> \o headersFrom(content, i + 1)
  ELSE IF i < Len(content)
    THEN <<Trim(Line(content[i + 1]))>> \o headersFrom(content, i + 2)
  ELSE << << >> >>

\* the texts of the headers array, in order
headers(content) == headersFrom(content, 1)

\* Map.prototype.set: a new key goes to the end, a known key keeps its place
MapSet(m, key, value) ==
  IF \E i \in DOMAIN m : m[i][1] = key
  THEN [i \in DOMAIN m |-> IF m[i][1] = key THEN <<key, value>> ELSE m[i]]
  ELSE Append(m, <<key, value>>)

\* the map from simple anchors to GitHub anchors, built from the first n
\* headers
RECURSIVE anchorMap(_, _)
anchorMap(hs, n) ==
  IF n = 0 THEN << >>
  ELSE LET m == anchorMap(hs, n - 1)
           simple == simpleAnchor(hs[n])
           github == githubAnchor(hs[n])
       IN IF simple # github /\ simple # << >> THEN MapSet(m, simple, github)
          ELSE m

\* String.prototype.replace with the link pattern of one entry
ReplaceLinks(content, simple, github) ==
  [i \in DOMAIN content |->
     IF content[i].kind = "link" /\ content[i].text = simple
     THEN Link(content[i].label, github) ELSE content[i]]

\* the replacements of the first n entries of the map, one after the other
RECURSIVE ReplaceAll(_, _, _)
ReplaceAll(content, m, n) ==
  IF n = 0 THEN content
  ELSE ReplaceLinks(ReplaceAll(content, m, n - 1), m[n][1], m[n][2])

fixTocAnchors(content) ==
  LET hs == headers(content)
      m == anchorMap(hs, Len(hs))
  IN ReplaceAll(content, m, Len(m))

\* the end of generateReadme: what it returns for the text of the backend
postProcess(content, includeToc, useEmojis) ==
  IF includeToc /\ useEmojis THEN fixTocAnchors(content) ELSE content

\* header texts whose two anchors differ or coincide in the ways of the code
SampleTexts ==
  { <<"a", " ", "1">>, <<"-", " ", "a">>, <<"rocket", " ", "a">>,
    <<"a", "-", "1">>, <<"!", " ", "a">>, <<" ">> }

\* the labels of the links
Labels == {<<"a">>, <<"rocket">>}

AnchorsOf(texts) ==
  {simpleAnchor(t) : t \in texts} \cup {githubAnchor(t) : t \in texts}
    \cup {<<"z">>}

\* texts with one header and texts with two headers, with links to them and
\* to other places
Contents ==
  UNION { { <<Header(t), Link(l, a), Prose>> : l \in Labels, a \in AnchorsOf({t}) } :
          t \in HeaderTexts }
  \cup
  UNION { { <<Header(t), Prose, Header(u), Link(<<"a">>, a), Link(<<"a">>, b)>> :
              a \in AnchorsOf({t, u}), b \in AnchorsOf({t, u}) } :
          t \in SampleTexts, u \in SampleTexts }

TocInputs ==
  [content : Contents, includeToc : BOOLEAN, useEmojis : BOOLEAN]

NoTocInput == [content |-> << >>, includeToc |-> FALSE, useEmojis |-> FALSE]

TocInit ==
  /\ tocIn = NoTocInput
  /\ tocOut = << >>

\* the backend answered generateReadme with a text
TocInput(in) ==
  /\ tocIn = NoTocInput
  /\ tocIn' = in
  /\ UNCHANGED tocOut
  /\ UNCHANGED <<prVars, fVars, rdVars, genVars, uiVars, bpVars>>
  /\ UNCHANGED <<msVars, acVars, asVars, hsVars>>

\* generateReadme returns
TocReturn ==
  /\ tocIn # NoTocInput
  /\ tocOut = << >>
  /\ tocOut' = <<postProcess(tocIn.content, tocIn.includeToc, tocIn.useEmojis)>>
  /\ UNCHANGED tocIn
  /\ UNCHANGED <<prVars, fVars, rdVars, genVars, uiVars, bpVars>>
  /\ UNCHANGED <<msVars, acVars, asVars, hsVars>>

TocNext ==
  \/ \E in \in TocInputs : TocInput(in)
  \/ TocReturn

(***************************************************************************)
(* mergeSections (App.jsx)                                                 *)
(***************************************************************************)
\* DEFAULT_SECTIONS, its entries with an id of OptionIds
DEFAULT_SECTIONS ==
  << [id |-> "badges", enabled |-> TRUE], [id |-> "usage", enabled |-> TRUE],
     [id |-> "license", enabled |-> TRUE] >>

\* the defaults of this release and of releases with fewer sections
DefaultLists == {SubSeq(DEFAULT_SECTIONS, 1, n) : n \in 1..Len(DEFAULT_SECTIONS)}

\* what getStoredValue returns for the sections key: null when nothing is
\* stored, the parsed JSON otherwise, an array of entries as the application
\* wrote it, in the order the user gave the sections, or with an id twice
StoredValues ==
  [kind : {"null", "object", "string"}, items : {<< >>}]
  \cup [kind : {"array"}, items : SectionLists]
  \cup [kind : {"array"},
        items : { <<[id |-> "usage", enabled |-> e], [id |-> "usage", enabled |-> ~e]>>
                  : e \in BOOLEAN }]

\* the index of the last entry of items with the id, 0 when there is none:
\* the entry `new Map(...)` keeps for the id
LastWithId(items, id) ==
  LET at == {j \in 1..Len(items) : items[j].id = id}
  IN IF at = {} THEN 0 ELSE CHOOSE j \in at : \A k \in at : k <= j

\* a merge that keeps the stored entries in their stored order and appends
\* the defaults with no stored entry
mergeSectionsStoredOrder(storedSections, defaultSections) ==
  IF storedSections.kind # "array" THEN defaultSections
  ELSE LET known(s) == \E i \in 1..Len(defaultSections) : defaultSections[i].id = s.id
           fresh(d) == LastWithId(storedSections.items, d.id) = 0
       IN SelectSeq(storedSections.items, known) \o SelectSeq(defaultSections, fresh)

mergeSections(storedSections, defaultSections) ==
  IF storedSections.kind # "array" THEN defaultSections
  ELSE [i \in 1..Len(defaultSections) |->
          LET j == LastWithId(storedSections.items, defaultSections[i].id)
          IN IF j # 0 THEN storedSections.items[j] ELSE defaultSections[i]]

NoMergeInput ==
  [stored |-> [kind |-> "null", items |-> << >>], defaults |-> << >>]

MsInit ==
  /\ msIn = NoMergeInput
  /\ msOut = << >>

\* the application starts with a value in localStorage
MsInput(stored, defaults) ==
  /\ msIn = NoMergeInput
  /\ msIn' = [stored |-> stored, defaults |-> defaults]
  /\ UNCHANGED msOut
  /\ UNCHANGED <<prVars, fVars, rdVars, genVars, uiVars, bpVars>>
  /\ UNCHANGED <<tocVars, acVars, asVars, hsVars>>

\* the initializer of the sections state runs
MsCall ==
  /\ msIn # NoMergeInput
  /\ msOut = << >>
  /\ msOut' = <<mergeSections(msIn.stored, msIn.defaults)>>
  /\ UNCHANGED msIn
  /\ UNCHANGED <<prVars, fVars, rdVars, genVars, uiVars, bpVars>>
  /\ UNCHANGED <<tocVars, acVars, asVars, hsVars>>

MergeNext ==
  \/ \E stored \in StoredValues, defaults \in DefaultLists : MsInput(stored, defaults)
  \/ MsCall

(***************************************************************************)
(* auth-status (netlify/functions/auth-status.js)                          *)
(*                                                                         *)
(* Times are in seconds, the code's milliseconds divided by 1000.  A       *)
(* cookie is known by what decrypt and JSON.parse make of it; a cookie     *)
(* that decrypts to an object is a session as auth-callback wrote it.      *)
(***************************************************************************)
\* `30 * 24 * 60 * 60 * 1000` ms
maxAge == 30 * 24 * 60 * 60

Logins == {"octocat", "hubot"}

AccessTokens == {"gho_1", "gho_2"}

NoUser == [id |-> "", login |-> ""]

UserOf(login) == [id |-> "id-" \o login, login |-> login]

\* the session object of auth-callback
Sessions ==
  [ token : AccessTokens, user : {UserOf(l) : l \in Logins},
    createdAt : {0, 1, maxAge, maxAge + 1, 2 * maxAge} ]

NoSession == [token |-> "", user |-> NoUser, createdAt |-> 0]

\* the session cookie of a request: none, an empty value, a value decrypt
\* returns null for, or a value that decrypts to text that is not JSON, to
\* the JSON null or to a session
SessionCookies ==
  [kind : {"none", "empty", "garbled", "notjson", "jsonNull"}, session : {NoSession}]
  \cup [kind : {"session"}, session : Sessions]

StatusEvents ==
  [ httpMethod : {"OPTIONS", "GET"}, authSecret : BOOLEAN,
    cookie : SessionCookies, now : {maxAge + 1, 2 * maxAge} ]

NoStatusEvent ==
  [ httpMethod |-> "none", authSecret |-> FALSE,
    cookie |-> [kind |-> "none", session |-> NoSession], now |-> 0 ]

NoStatusResult ==
  [statusCode |-> 0, authenticated |-> "none", user |-> NoUser, clears |-> FALSE]

\* a response with a body {authenticated, user}; clears tells whether it has
\* the Set-Cookie header that removes the session cookie
StatusResponse(authenticated, user, clears) ==
  [ statusCode |-> 200, authenticated |-> authenticated, user |-> user,
    clears |-> clears ]

\* a response without the authenticated member
PlainResponse(statusCode) ==
  [ statusCode |-> statusCode, authenticated |-> "none", user |-> NoUser,
    clears |-> FALSE ]

\* the handler with the check of the session age missing
StatusHandlerNoAge(ev) ==
  IF ev.httpMethod = "OPTIONS" THEN PlainResponse(204)
  ELSE IF ~ev.authSecret THEN PlainResponse(500)
  ELSE IF ev.cookie.kind \in {"none", "empty"}
    THEN StatusResponse("false", NoUser, FALSE)
  ELSE IF ev.cookie.kind = "garbled" THEN StatusResponse("false", NoUser, TRUE)
  ELSE IF ev.cookie.kind \in {"notjson", "jsonNull"}
    THEN StatusResponse("false", NoUser, TRUE)
  ELSE StatusResponse("true", ev.cookie.session.user, FALSE)

\* exports.handler of auth-status
StatusHandler(ev) ==
  IF ev.httpMethod = "OPTIONS" THEN PlainResponse(204)
  ELSE IF ~ev.authSecret THEN PlainResponse(500)
  \* `!sessionCookie`
  ELSE IF ev.cookie.kind \in {"none", "empty"}
    THEN StatusResponse("false", NoUser, FALSE)
  \* `!decrypted`
  ELSE IF ev.cookie.kind = "garbled" THEN StatusResponse("false", NoUser, TRUE)
  \* JSON.parse throws, or reading createdAt of null throws
  ELSE IF ev.cookie.kind \in {"notjson", "jsonNull"}
    THEN StatusResponse("false", NoUser, TRUE)
  ELSE LET session == ev.cookie.session
           sessionAge == ev.now - session.createdAt
       IN IF sessionAge > maxAge THEN StatusResponse("false", NoUser, TRUE)
          ELSE StatusResponse("true", session.user, FALSE)

AsInit ==
  /\ asEvent = NoStatusEvent
  /\ asResult = NoStatusResult

\* one invocation of auth-status
AsInvoke(ev) ==
  /\ asEvent' = ev
  /\ asResult' = StatusHandler(ev)
  /\ UNCHANGED <<prVars, fVars, rdVars, genVars, uiVars, bpVars>>
  /\ UNCHANGED <<tocVars, msVars, acVars, hsVars>>

StatusNext == \E ev \in StatusEvents : AsInvoke(ev)

(***************************************************************************)
(* auth-callback (netlify/functions/auth-status.js, second part)           *)
(***************************************************************************)
\* a query parameter or a cookie: undefined when absent, a string otherwise
Absent == [type |-> "undefined", value |-> ""]

Str(value) == [type |-> "string", value |-> value]

\* `!x` is false for a parameter or a cookie value
Present(x) == x.type = "string" /\ x.value # ""

\* the values of the state parameter and of the oauth_state cookie
StateValues == {Absent, Str(""), Str("s1"), Str("s2")}

CallbackEvents ==
  [ oauthError : {Absent, Str("access_denied")},
    code : {Absent, Str("c1")},
    state : StateValues, oauth_state : StateValues,
    clientId : BOOLEAN, clientSecret : BOOLEAN, authSecret : BOOLEAN ]

NoCallbackEvent ==
  [ oauthError |-> Absent, code |-> Absent, state |-> Absent,
    oauth_state |-> Absent, clientId |-> FALSE, clientSecret |-> FALSE,
    authSecret |-> FALSE ]

\* what the token endpoint does: fetch rejects, the body is not JSON, the
\* body is the JSON null, or the body is an object with or without the
\* members error and access_token
TokenAnswers ==
  [kind : {"reject", "nonjson", "null"}, error : {FALSE}, access_token : {""}]
  \cup [kind : {"object"}, error : BOOLEAN, access_token : {""} \cup AccessTokens]

\* what the user endpoint does: fetch rejects, or a response with `ok` and a
\* body that is not JSON, the JSON null or a user object
UserAnswers ==
  [kind : {"reject"}, ok : {FALSE}, login : {""}]
  \cup [kind : {"nonjson", "null"}, ok : BOOLEAN, login : {""}]
  \cup [kind : {"object"}, ok : BOOLEAN, login : Logins]

\* what came back from the token endpoint, in one word
TokenOutcome(r) ==
  IF r.kind # "object" THEN r.kind ELSE IF r.error THEN "error" ELSE "ok"

\* what came back from the user endpoint, in one word
UserOutcome(r) ==
  IF r.kind = "reject" THEN "reject" ELSE IF ~r.ok THEN "notok"
  ELSE IF r.kind # "object" THEN r.kind ELSE "ok"

GitHubRequest(to, with) == [to |-> to, with |-> with, answer |-> "pending"]

Answered(reqs, answer) == [reqs EXCEPT ![Len(reqs)].answer = answer]

\* the cookies of a Set-Cookie header, in the order of the header value
SessionSetCookie == [name |-> "session", maxAge |-> maxAge]

StateClearCookie == [name |-> "oauth_state", maxAge |-> 0]

NoCallbackResult ==
  [statusCode |-> 0, error |-> "none", setCookie |-> << >>, session |-> NoSession]

\* a redirect to `${baseUrl}/?error=<error>`
ErrorRedirect(error, setCookie) ==
  [statusCode |-> 302, error |-> error, setCookie |-> setCookie,
   session |-> NoSession]

\* the redirect to baseUrl with the encrypted session in the session cookie
\* and the removal of the state cookie, joined in one header value
SessionRedirect(session) ==
  [statusCode |-> 302, error |-> "", session |-> session,
   setCookie |-> <<SessionSetCookie, StateClearCookie>>]

\* the state validation without its `!state` part
invalidStateMismatchOnly(state, oauth_state) == state # oauth_state

\* `!state || state !== cookies.oauth_state`
invalidState(state, oauth_state) == ~Present(state) \/ state # oauth_state

AcInit ==
  /\ acPc = "idle"
  /\ acEvent = NoCallbackEvent
  /\ acReqs = << >>
  /\ acResult = NoCallbackResult

\* the handler runs up to its first await: the checks of the parameters, of
\* the state and of the environment, then the token exchange request
AcInvoke(ev) ==
  /\ acPc = "idle"
  /\ acEvent' = ev
  /\ IF Present(ev.oauthError)
       THEN /\ acPc' = "done"
            /\ acResult' = ErrorRedirect("oauth_denied", << >>)
            /\ UNCHANGED acReqs
     ELSE IF ~Present(ev.code)
       THEN /\ acPc' = "done"
            /\ acResult' = ErrorRedirect("no_code", << >>)
            /\ UNCHANGED acReqs
     ELSE IF invalidState(ev.state, ev.oauth_state)
       THEN /\ acPc' = "done"
            /\ acResult' = ErrorRedirect("invalid_state", <<StateClearCookie>>)
            /\ UNCHANGED acReqs
     ELSE IF ~ev.clientId \/ ~ev.clientSecret \/ ~ev.authSecret
       THEN /\ acPc' = "done"
            /\ acResult' = ErrorRedirect("config_error", << >>)
            /\ UNCHANGED acReqs
     ELSE /\ acPc' = "token"
          /\ acReqs' = Append(acReqs, GitHubRequest("token", ev.code.value))
          /\ UNCHANGED acResult
  /\ UNCHANGED <<prVars, fVars, rdVars, genVars, uiVars, bpVars>>
  /\ UNCHANGED <<tocVars, msVars, asVars, hsVars>>

\* the token exchange settled and its body was read; the handler goes on to
\* the user request
AcTokenResponse(r) ==
  /\ acPc = "token"
  /\ IF r.kind \in {"reject", "nonjson", "null"}
       THEN /\ acPc' = "done"
            /\ acResult' = ErrorRedirect("unexpected", << >>)
            /\ acReqs' = Answered(acReqs, TokenOutcome(r))
     ELSE IF r.error
       THEN /\ acPc' = "done"
            /\ acResult' = ErrorRedirect("token_exchange_failed", << >>)
            /\ acReqs' = Answered(acReqs, TokenOutcome(r))
     ELSE /\ acPc' = "user"
          /\ acReqs' = Append(Answered(acReqs, TokenOutcome(r)),
                              GitHubRequest("user", r.access_token))
          /\ UNCHANGED acResult
  /\ UNCHANGED acEvent
  /\ UNCHANGED <<prVars, fVars, rdVars, genVars, uiVars, bpVars>>
  /\ UNCHANGED <<tocVars, msVars, asVars, hsVars>>

\* the user request settled; the handler builds the session and returns
AcUserResponse(r) ==
  /\ acPc = "user"
  /\ acPc' = "done"
  /\ acResult' =
       IF r.kind = "reject" THEN ErrorRedirect("unexpected", << >>)
       ELSE IF ~r.ok THEN ErrorRedirect("user_fetch_failed", << >>)
       ELSE IF r.kind \in {"nonjson", "null"} THEN ErrorRedirect("unexpected", << >>)
       ELSE SessionRedirect([ token |-> acReqs[Len(acReqs)].with,
                              user |-> UserOf(r.login), createdAt |-> now ])
  /\ acReqs' = Answered(acReqs, UserOutcome(r))
  /\ UNCHANGED acEvent
  /\ UNCHANGED <<prVars, fVars, rdVars, genVars, uiVars, bpVars>>
  /\ UNCHANGED <<tocVars, msVars, asVars, hsVars>>

CallbackNext ==
  \/ \E ev \in CallbackEvents : AcInvoke(ev)
  \/ \E r \in TokenAnswers : AcTokenResponse(r)
  \/ \E r \in UserAnswers : AcUserResponse(r)
  \/ Tick

(***************************************************************************)
(* App.handleSubmit (App.jsx) and parseGitHubUrl (services/github.js)      *)
(*                                                                         *)
(* A repoUrl is "https://" when scheme is set, then "github.com/" when     *)
(* host is set, then segs path segments "s1", "s2", ... joined by "/".     *)
(***************************************************************************)
\* the labels of the four stages, in their order
StageLabels ==
  << "Fetching repository info...", "Fetching languages...",
     "Analyzing file structure...", "Reading config files..." >>

MaxSegments == 4

RepoUrls ==
  [type : {"string"}, scheme : BOOLEAN, host : BOOLEAN, segs : 0..MaxSegments]
  \cup [type : {"boolean"}, scheme : {FALSE}, host : {FALSE}, segs : {0}]

NoUrl == [type |-> "none", scheme |-> FALSE, host |-> FALSE, segs |-> 0]

NoRepo == [owner |-> "", repo |-> ""]

Segment(n) == "s" \o ToString(n)

\* parseGitHubUrl: {owner, repo}, or NoRepo for null
parseGitHubUrl(url) ==
  IF url.type # "string" \/ (~url.scheme /\ ~url.host /\ url.segs = 0) THEN NoRepo
  \* /github\.com\/([^/]+)\/([^/?#]+)/
  ELSE IF url.host /\ url.segs >= 2
    THEN [owner |-> Segment(1), repo |-> Segment(2)]
  \* /^([^/]+)\/([^/]+)$/
  ELSE IF ~url.scheme /\ url.host /\ url.segs = 1
    THEN [owner |-> "github.com", repo |-> Segment(1)]
  ELSE IF ~url.scheme /\ ~url.host /\ url.segs = 2
    THEN [owner |-> Segment(1), repo |-> Segment(2)]
  ELSE NoRepo

InvalidUrlMessage ==
  "Invalid GitHub URL. Use format: owner/repo or https://github.com/owner/repo"

\* messages of the errors fetchRepoData and generateReadme reject with
AggregationErrors == {"Repository not found", "GitHub API rate limit exceeded"}

GenerationErrors ==
  { "No content generated. The API returned an empty response.",
    "Failed to generate README (Status: 500)" }

\* texts generateReadme resolves with
GeneratedTexts == {"# s1", "# s1 / ## Usage"}

\* how an awaited service call settles: it resolves with a value or rejects
\* with an error that has a message
Settlements(values, errors) ==
  [kind : {"resolve"}, with : values] \cup [kind : {"reject"}, with : errors]

HsInit ==
  /\ hsPc = "idle"
  /\ hsUrl = NoUrl
  /\ hsLoading = FALSE
  /\ hsStage = ""
  /\ hsError = ""
  /\ hsReadme = ""
  /\ hsSet = << >>
  /\ hsLoads = 0
  /\ hsCalls = << >>

\* handleSubmit runs up to its first await: the URL is parsed; for a parsed
\* URL the states are reset and fetchRepoData is called, which reports its
\* first stage before it awaits
HsSubmit(url) ==
  /\ hsPc \in {"idle", "done"}
  /\ hsUrl' = url
  /\ IF parseGitHubUrl(url) = NoRepo
       THEN /\ hsPc' = "done"
            /\ hsError' = InvalidUrlMessage
            /\ hsSet' = <<InvalidUrlMessage>>
            /\ hsLoads' = 0
            /\ hsCalls' = << >>
            /\ UNCHANGED <<hsLoading, hsStage, hsReadme>>
       ELSE /\ hsPc' = "aggregating"
            /\ hsError' = ""
            /\ hsSet' = << >>
            /\ hsLoading' = TRUE
            /\ hsLoads' = 1
            /\ hsReadme' = ""
            /\ hsCalls' = <<[call |-> "fetchRepoData", outcome |-> "pending"]>>
            /\ hsStage' = StageLabels[1]
  /\ UNCHANGED <<prVars, fVars, rdVars, genVars, uiVars, bpVars>>
  /\ UNCHANGED <<tocVars, msVars, acVars, asVars>>

\* fetchRepoData reports its next stage through setStage
HsStage ==
  /\ hsPc = "aggregating"
  /\ \E i \in 1..(Len(StageLabels) - 1) :
       /\ hsStage = StageLabels[i]
       /\ hsStage' = StageLabels[i + 1]
  /\ UNCHANGED <<hsPc, hsUrl, hsLoading, hsError, hsReadme, hsSet, hsLoads,
                 hsCalls>>
  /\ UNCHANGED <<prVars, fVars, rdVars, genVars, uiVars, bpVars>>
  /\ UNCHANGED <<tocVars, msVars, acVars, asVars>>

\* the catch block without the finally block
HsCatchNoFinally(message) ==
  /\ hsPc' = "done"
  /\ hsError' = message
  /\ hsSet' = Append(hsSet, message)
  /\ UNCHANGED <<hsUrl, hsReadme, hsLoads, hsLoading, hsStage>>

\* the catch and finally blocks of handleSubmit
HsCatch(message) ==
  /\ hsPc' = "done"
  /\ hsError' = message
  /\ hsSet' = Append(hsSet, message)
  /\ hsLoading' = FALSE
  /\ hsStage' = ""
  /\ UNCHANGED <<hsUrl, hsReadme, hsLoads>>

SettleLast(calls, outcome) == [calls EXCEPT ![Len(calls)].outcome = outcome]

\* fetchRepoData settled: with a snapshot, after its last stage, and
\* generateReadme is called, or with an error at any stage
HsAggregated(s) ==
  /\ hsPc = "aggregating"
  /\ IF s.kind = "resolve"
       THEN /\ hsStage = StageLabels[Len(StageLabels)]
            /\ hsPc' = "generating"
            /\ hsStage' = "Generating README..."
            /\ hsCalls' = Append(SettleLast(hsCalls, "resolved"),
                                 [call |-> "generateReadme", outcome |-> "pending"])
            /\ UNCHANGED <<hsUrl, hsLoading, hsError, hsReadme, hsSet, hsLoads>>
       ELSE /\ HsCatch(s.with)
            /\ hsCalls' = SettleLast(hsCalls, "rejected")
  /\ UNCHANGED <<prVars, fVars, rdVars, genVars, uiVars, bpVars>>
  /\ UNCHANGED <<tocVars, msVars, acVars, asVars>>

\* generateReadme settled: with the text, or with an error
HsGenerated(s) ==
  /\ hsPc = "generating"
  /\ IF s.kind = "resolve"
       THEN /\ hsPc' = "done"
            /\ hsReadme' = s.with
            /\ hsLoading' = FALSE
            /\ hsStage' = ""
            /\ hsCalls' = SettleLast(hsCalls, "resolved")
            /\ UNCHANGED <<hsUrl, hsError, hsSet, hsLoads>>
       ELSE /\ HsCatch(s.with)
            /\ hsCalls' = SettleLast(hsCalls, "rejected")
  /\ UNCHANGED <<prVars, fVars, rdVars, genVars, uiVars, bpVars>>
  /\ UNCHANGED <<tocVars, msVars, acVars, asVars>>

\* the service call handleSubmit awaits settles
HsSettle ==
  \/ \E s \in Settlements({"snapshot"}, AggregationErrors) : HsAggregated(s)
  \/ \E s \in Settlements(GeneratedTexts, GenerationErrors) : HsGenerated(s)

SubmitNext ==
  \/ \E url \in RepoUrls : HsSubmit(url)
  \/ HsStage
  \/ HsSettle

(***************************************************************************)
(* Specifications                                                          *)
(***************************************************************************)
Init ==
  /\ PrInit /\ FInit /\ RdInit /\ GenInit /\ GrInit /\ UiInit /\ BpInit
  /\ TocInit /\ MsInit /\ AsInit /\ AcInit /\ HsInit

Next ==
  \/ PrNext \/ FNext \/ FanOutNext \/ RepoNext \/ GenNext \/ UiNext \/ PromptNext
  \/ TocNext \/ MergeNext \/ StatusNext \/ CallbackNext \/ SubmitNext

Spec == Init /\ [][Next]_vars

\* create-pr alone
SpecPR == Init /\ [][PrNext]_vars

\* the fetch client, calls one after the other
SpecFetch == Init /\ [][FNext]_vars

\* the fetch client, calls in flight together
SpecFanOut == Init /\ [][FanOutNext]_vars

\* the aggregator over the fetch client
SpecRepo == Init /\ [][RepoNext]_vars

\* one call of the fetch client under server errors
SpecRetry == Init /\ [][RetryNext]_vars

\* generate-readme and generateReadme
SpecGen == Init /\ [][GenNext]_vars

\* handleCreatePR
SpecUI == Init /\ [][UiNext]_vars

\* buildPrompt
SpecPrompt == Init /\ [][PromptNext]_vars

\* the anchor repair alone
SpecToc == Init /\ [][TocNext]_vars

\* mergeSections alone
SpecMerge == Init /\ [][MergeNext]_vars

\* auth-status alone
SpecStatus == Init /\ [][StatusNext]_vars

\* auth-callback alone
SpecCallback == Init /\ [][CallbackNext]_vars

\* handleSubmit alone; a service call that is awaited settles
SpecSubmit == Init /\ [][SubmitNext]_vars /\ WF_vars(HsSettle)

(***************************************************************************)
(* Properties of create-pr                                                 *)
(***************************************************************************)
Ops(reqs) == [i \in 1..Len(reqs) |-> reqs[i].op]

DeleteRequests ==
  {i \in 1..Len(prReqs) :
     prReqs[i] = Request("deleteBranch", prLocal.newBranch, "", FALSE)}

\* the write-file request was answered with a failure status
WriteFailed ==
  \E i \in 1..Len(prOutcomes) : prReqs[i].op = "writeFile" /\ prOutcomes[i] = "fail"

\* the create-branch request was answered with success
BranchWasCreated ==
  \E i \in 1..Len(prOutcomes) : prReqs[i].op = "createBranch" /\ prOutcomes[i] = "ok"

\* C1: after a failed write-file step the response to the caller is the
\* write-file error (its status and 'Failed to update README file'), whatever
\* the cleanup delete did
C1_CleanupNeverMasksWriteError ==
  (prPc = "done" /\ WriteFailed) =>
     /\ prResult.statusCode = prLocal.updateStatus
     /\ prResult.error = "Failed to update README file"

\* C2: a run that ends in failure with the branch created and README.md not
\* written to it has issued a delete request for that branch
C2_NoOrphanBranchWithoutDelete ==
  (prPc = "done" /\ prResult.statusCode # 200
     /\ BranchWasCreated /\ ~prRemote.fileWritten) =>
     DeleteRequests # {}

\* C3: when write-file fails after create-branch succeeded, exactly one
\* delete of refs/heads/<new branch> is issued before the response, and the
\* response has the status of the write-file step
C3_OneDeleteAndWriteStatus ==
  (prPc = "done" /\ BranchWasCreated /\ WriteFailed) =>
     /\ Cardinality(DeleteRequests) = 1
     /\ prResult.statusCode = prLocal.updateStatus

CanonicalOps == <<"getRef", "createBranch", "checkFile", "writeFile", "createPR">>

CleanupOps == <<"getRef", "createBranch", "checkFile", "writeFile", "deleteBranch">>

IsPrefix(s, t) == Len(s) <= Len(t) /\ \A i \in 1..Len(s) : s[i] = t[i]

\* C4: the requests of a run are a prefix of get-ref, create-branch,
\* check-file, write-file, create-pull-request, or the first four followed by
\* the cleanup delete after a failed write; a request is issued only when all
\* earlier ones are answered; after a failure of step 1, 2, 4 or 5 no later
\* step is issued
C4_StepsSequential ==
  /\ \/ IsPrefix(Ops(prReqs), CanonicalOps)
     \/ Ops(prReqs) = CleanupOps /\ Len(prOutcomes) >= 4 /\ prOutcomes[4] = "fail"
  /\ Len(prOutcomes) <= Len(prReqs)
  /\ Len(prReqs) <= Len(prOutcomes) + 1
  /\ prPc = "done" => Len(prReqs) = Len(prOutcomes)
  /\ \A i \in 1..Len(prOutcomes) :
       prOutcomes[i] # "ok" =>
         \/ prReqs[i].op \in {"getRef", "createBranch", "createPR"} /\ Len(prReqs) = i
         \/ prReqs[i].op = "writeFile" /\ prOutcomes[i] = "throw" /\ Len(prReqs) = i
         \/ prReqs[i].op = "writeFile" /\ prOutcomes[i] = "fail"
              /\ Len(prReqs) = i + 1 /\ prReqs[i + 1].op = "deleteBranch"
         \/ prReqs[i].op \in {"checkFile", "deleteBranch"}

\* a run whose write failed and whose cleanup delete was issued and answered
C4_Witness ==
  /\ prPc = "done"
  /\ Ops(prReqs) = CleanupOps
  /\ Len(prOutcomes) = 5

(***************************************************************************)
(* Properties of the fetch client                                          *)
(***************************************************************************)
\* call c runs the rate-limit check in this step (first entry or retry)
Checks(c) == fPc[c] \in {"idle", "backoff"} /\ fPc'[c] # fPc[c]

\* a response (not a network error) is received by call c in this step
Received(c) ==
  /\ fPc[c] = "inflight"
  /\ \/ fPc'[c] = "errbody"
     \/ fPc'[c] = "done" /\ fResult'[c].kind \in {"none", "SyntaxError"}

\* the status of the response of call c is mapped in this step
Mapped(c) == fPc[c] = "errbody" /\ fPc'[c] # "errbody"

\* the rate-limit state that the headers h stand for
HeaderState(h) ==
  [ remaining |-> parseInt(h.remaining),
    reset     |-> IF h.reset = NoHeader THEN Null ELSE parseInt(h.reset) * 1000 ]

InitialRateLimit == [remaining |-> InitialRemaining, reset |-> Null]

\* C5: at the check, remaining 0 with a reset time in the future fails the
\* call with the rate-limit error and no request; any other state issues one
C5_ShortCircuit ==
  [][\A c \in Calls :
       Checks(c) =>
         IF rateLimit.remaining = 0 /\ rateLimit.reset # Null /\ now < rateLimit.reset
         THEN /\ fPc'[c] = "done"
              /\ fResult'[c].state = "error"
              /\ fResult'[c].kind = "RateLimitedWait"
              /\ fNet'[c] = fNet[c]
         ELSE /\ fPc'[c] = "inflight"
              /\ fNet'[c] = fNet[c] + 1]_vars

\* a first check that failed: rate-limit error, no request issued
C5_Witness ==
  /\ fPc[1] = "done"
  /\ fResult[1].kind = "RateLimitedWait"
  /\ fNet[1] = 0
  /\ now < rateLimit.reset

\* C6: one call issues at most 3 requests, server errors and network errors
\* drawing on the same budget; a transient failure (server error, network
\* error, or the TypeError of reading a body that is not JSON) is thrown only
\* by the attempt that exhausts the budget, and it is the error of that attempt
C6_RetryBudget ==
  /\ [](\A c \in Calls :
          /\ fNet[c] <= DefaultRetries + 1
          /\ fNet[c] + fRetries[c] <= DefaultRetries + 1
          /\ fPc[c] \in {"inflight", "errbody", "backoff"} =>
               fNet[c] + fRetries[c] = DefaultRetries + 1)
  /\ [][\A c \in Calls :
          /\ (Mapped(c) /\ fPc'[c] = "done" /\ fResp[c].json /\ fResp[c].status >= 500) =>
                /\ fNet[c] = DefaultRetries + 1
                /\ fResult'[c] = Thrown("ApiError", fResp[c].status, fNet[c])
          /\ (Mapped(c) /\ fPc'[c] = "done" /\ ~fResp[c].json) =>
                /\ fNet[c] = DefaultRetries + 1
                /\ fResult'[c] = Thrown("BodyTypeError", 0, fNet[c])
          /\ (fPc[c] = "inflight" /\ fPc'[c] = "done"
                /\ fResult'[c].kind = "NetworkError") =>
                /\ fNet[c] = DefaultRetries + 1
                /\ fResult'[c] = Thrown("NetworkError", 0, fNet[c])]_vars

\* three requests were issued and the server error of the third is thrown
C6_Witness ==
  /\ fPc[1] = "done"
  /\ fNet[1] = 3
  /\ fResult[1] = Thrown("ApiError", 503, 3)

\* C7: a 4xx response is followed by no retry: the call ends with the mapped
\* error, whatever the body and whatever budget is left
C7_ClientErrorNeverRetried ==
  [][\A c \in Calls :
       (Mapped(c) /\ fResp[c].status >= 400 /\ fResp[c].status <= 499) =>
          /\ fPc'[c] = "done"
          /\ fNet'[c] = fNet[c]
          /\ fResult'[c].kind =
               MapStatus(fResp[c].status, fResp[c].remaining, fRetries[c])]_vars

\* C8 as stated: every response received overwrites the shared state with the
\* remaining / reset values of its headers
C8_EveryResponseOverwrites ==
  [][\A c \in Calls :
       Received(c) =>
          /\ lastHdrs'.remaining # NoHeader
          /\ rateLimit' = HeaderState(lastHdrs')]_vars

\* C8 amended: a response with x-ratelimit-remaining, whatever its status,
\* overwrites the shared state with its remaining / reset values in the step
\* that receives it, before the status is mapped or an error thrown; a
\* response without the header leaves the shared state as it was
C8_ResponseWithHeaderOverwrites ==
  /\ [][\A c \in Calls :
          Received(c) =>
             /\ rateLimit' = IF lastHdrs'.remaining # NoHeader
                             THEN HeaderState(lastHdrs')
                             ELSE rateLimit
             /\ fPc'[c] = "errbody" => fResult'[c] = Pending]_vars
  /\ [][\A c \in Calls : Mapped(c) => rateLimit' = rateLimit]_vars

\* an error response with headers was received and its status is not mapped yet
C8_Witness ==
  /\ fPc[1] = "errbody"
  /\ fResp[1].status = 404
  /\ lastHdrs = [seen |-> TRUE, remaining |-> "0", reset |-> "2"]
  /\ rateLimit = [remaining |-> 0, reset |-> 2000]

\* the calls in flight together have all settled
Settled == \A c \in Calls : fPc[c] = "done"

\* C9 as stated: the shared state is a whole pair of one response or the
\* initial value, and once the fetches have settled it is the pair of the
\* response processed last
C9_StateOfLastResponse ==
  /\ rateLimit = IF lastRated.seen THEN HeaderState(lastRated) ELSE InitialRateLimit
  /\ (Settled /\ lastHdrs.seen) =>
        /\ lastHdrs.remaining # NoHeader
        /\ rateLimit = HeaderState(lastHdrs)

\* C9 amended: under every interleaving the shared state is the initial value
\* or the whole (remaining, reset) pair of the response processed last among
\* those that had x-ratelimit-remaining
C9_WholePairOfLastRatedResponse ==
  /\ rateLimit = IF lastRated.seen THEN HeaderState(lastRated) ELSE InitialRateLimit
  /\ lastHdrs.remaining # NoHeader => lastRated = lastHdrs

\* two fetches in flight together have both been answered, the second answer
\* with other headers than the first
C9_Witness ==
  /\ \A c \in Calls : fPc[c] = "done" /\ fNet[c] = 1 /\ fResult[c].state = "ok"
  /\ lastRated = [seen |-> TRUE, remaining |-> "0", reset |-> NoHeader]
  /\ lastHdrs = lastRated

\* C10: 404 gives not-found, 403 gives rate-limited exactly when the
\* response's x-ratelimit-remaining is 0 and forbidden otherwise, 401 gives
\* unauthorized, 500 and more is retried while retries are left
C10_StatusMapping ==
  [][\A c \in Calls :
       Mapped(c) =>
         LET st == fResp[c].status IN
         /\ st = 404 => fPc'[c] = "done" /\ fResult'[c].kind = "NotFound"
         /\ st = 403 =>
              /\ fPc'[c] = "done"
              /\ fResult'[c].kind =
                   IF fResp[c].remaining = "0" THEN "RateLimited403" ELSE "Forbidden"
         /\ st = 401 => fPc'[c] = "done" /\ fResult'[c].kind = "Unauthorized"
         /\ (st >= 500 /\ fRetries[c] > 0) => fPc'[c] = "backoff"]_vars

(***************************************************************************)
(* Properties of create-pr: routing, sessions, step outcomes               *)
(***************************************************************************)
\* a create-pr request is issued in this step
PrIssued == Len(prReqs') = Len(prReqs) + 1

\* a create-pr request is answered (or its fetch rejects) in this step
PrAnswered == Len(prStatuses') = Len(prStatuses) + 1

\* C11: every create-pr request goes through the rate-limited fetch client:
\* the rate-limit check runs when it is issued, the headers of its response
\* are processed into the shared rate-limit state, and a rejected fetch or a
\* 5xx answer is followed by the same request again
C11_PrRequestsThroughFetchClient ==
  [][/\ PrIssued => \E c \in Calls : Checks(c)
     /\ PrAnswered =>
          LET i == Len(prStatuses') IN
          /\ prStatuses'[i] # 0 => lastHdrs'.seen
          /\ (prStatuses'[i] = 0 \/ prStatuses'[i] >= 500) =>
               /\ Len(prReqs') = i + 1
               /\ prReqs'[i + 1] = prReqs[i]]_vars

\* C12: a 401 answer to get-ref ends the run with 401 and sessionExpired
\* after that one request; the 401 of a request without a usable session
\* carries no sessionExpired flag
C12_SessionExpiredOnGetRef401 ==
  /\ (Len(prStatuses) >= 1 /\ prStatuses[1] = 401) =>
       /\ prPc = "done"
       /\ prResult.statusCode = 401
       /\ prResult.sessionExpired
       /\ Ops(prReqs) = <<"getRef">>
  /\ (prPc = "done" /\ prEvent.httpMethod = "POST"
        /\ getTokenFromSession(prEvent) \in {"null", "undefined"}) =>
       /\ prResult.statusCode = 401
       /\ ~prResult.sessionExpired
       /\ prReqs = << >>

C12_Witness ==
  /\ prPc = "done"
  /\ prStatuses = <<401>>
  /\ prResult.sessionExpired

\* C13: a POST without a session cookie, with one that does not decrypt or
\* parse, or with an expired session is answered with the
\* authentication-required error and issues no GitHub request
C13_NoUsableSessionNoRequest ==
  (prPc # "idle" /\ prEvent.httpMethod = "POST"
     /\ prEvent.cookie \in {"none", "garbled", "notjson", "expired"}) =>
    /\ prPc = "done"
    /\ prResult = Response(401, "Not authenticated. Please sign in with GitHub.")
    /\ prReqs = << >>

\* C14: whatever status answers the step-3 check, the write-file request is
\* issued next, and it carries a sha exactly when step 3 succeeded
C14_WriteAttemptedAfterAnyCheck ==
  (Len(prStatuses) >= 3 /\ prStatuses[3] # 0) =>
    /\ Len(prReqs) >= 4
    /\ prReqs[4].op = "writeFile"
    /\ prReqs[4].sha = (prOutcomes[3] = "ok")

\* C15: a 422 answer to create-branch ends the run with 422 and the
\* branch-collision error; get-ref and one create-branch are the only
\* requests of the run
C15_BranchCollisionNotRetried ==
  (Len(prStatuses) >= 2 /\ prStatuses[2] = 422) =>
    /\ prPc = "done"
    /\ prResult = Response(422, "Branch already exists or invalid reference")
    /\ Ops(prReqs) = <<"getRef", "createBranch">>

C15_Witness ==
  /\ prPc = "done"
  /\ prStatuses = <<200, 422>>

\* the request op was answered with success
StepOk(op) ==
  \E i \in 1..Len(prOutcomes) : prReqs[i].op = op /\ prOutcomes[i] = "ok"

AllFourOk ==
  /\ StepOk("getRef")
  /\ StepOk("createBranch")
  /\ StepOk("writeFile")
  /\ StepOk("createPR")

\* C16: a finished run has status 200 (with success and the PR url) only
\* when get-ref, create-branch, write-file and create-pull-request were all
\* answered with success; every other run has another status, no success
\* and no PR url
C16_SuccessOnlyWhenAllStepsOk ==
  prPc = "done" =>
    /\ prResult.statusCode = 200 => (prResult.success /\ AllFourOk)
    /\ prResult.prUrl => (prResult.statusCode = 200 /\ AllFourOk)
    /\ ~AllFourOk =>
         /\ prResult.statusCode # 200
         /\ ~prResult.success
         /\ ~prResult.prUrl

C16_Witness ==
  /\ prPc = "done"
  /\ prResult.statusCode = 200
  /\ prResult.prUrl
  /\ Len(prReqs) = 5

(***************************************************************************)
(* Properties of the aggregator                                            *)
(***************************************************************************)
\* C17: when the repository call or the languages call ends with an error,
\* fetchRepoData has thrown that error, has no snapshot, and has started no
\* call of a later stage
C17_FatalStageFailure ==
  \A i \in 1..Len(rdOut) :
    (i <= 2 /\ rdOut[i].state = "error") =>
      /\ rdPc = "done"
      /\ rdResult = Failure(rdOut[i])
      /\ Len(rdCalls) = i
      /\ \A c \in Calls : fPc[c] = "idle"

\* the languages call failed after its retries were used up
C17_Witness ==
  /\ rdPc = "done"
  /\ Len(rdOut) = 2
  /\ rdOut[2] = [state |-> "error", kind |-> "NetworkError", status |-> 0]
  /\ rdResult.state = "error"

\* C18: when the tree call ends with an error, files and directories are
\* empty, no config-file call is started, and the run ends with a snapshot
\* whose files, directories and configFiles are empty
C18_TreeFailureNotFatal ==
  (Len(rdOut) >= 3 /\ rdOut[3].state = "error") =>
    /\ rdPc \in {"config", "done"}
    /\ rdFiles = << >>
    /\ rdDirs = << >>
    /\ rdCalls = <<"repo", "languages", "tree">>
    /\ \A c \in Calls : rdContent[c] = NotFetched /\ fPc[c] = "idle"
    /\ rdResult.state # "error"
    /\ rdPc = "done" => rdResult = Snapshot(<< >>, << >>, NoConfig)

C18_Witness ==
  /\ rdPc = "done"
  /\ Len(rdOut) = 3
  /\ rdOut[3].state = "error"
  /\ rdResult.state = "snapshot"

\* the allow-listed files found in the file list
ListedManifests == {ConfigPaths[c] : c \in MatchingCalls(rdFiles)}

\* the paths whose fetchFileContent call ended as `why`
NullPaths(why) ==
  {ConfigPaths[c] : c \in {d \in Calls : rdContent[d] = NullContent(why)}}

\* the paths whose contents request succeeded
FetchedPaths ==
  {ConfigPaths[c] : c \in {d \in Calls :
     \/ rdContent[d].state = "text"
     \/ rdContent[d] \in {NullContent("empty"), NullContent("undecodable")}}}

\* C19: the snapshot is returned after every config-file fetch has settled,
\* configFiles has exactly the keys whose fetch succeeded, a failed fetch
\* does not fail the aggregation, and every key is allow-listed and listed
C19_KeysAreSucceededFetches ==
  rdPc = "done" /\ Len(rdOut) = 3 =>
    /\ rdResult.state = "snapshot"
    /\ \A c \in Calls : rdContent[c] # AwaitedContent /\ fPc[c] = "idle"
    /\ DOMAIN rdResult.configFiles = FetchedPaths
    /\ DOMAIN rdResult.configFiles \subseteq ListedManifests

\* C19 amended: as C19, with exactly the keys whose fetch succeeded with a
\* content that is not empty and that decodes
C19_KeysAreNonEmptyContents ==
  rdPc = "done" /\ Len(rdOut) = 3 =>
    /\ rdResult.state = "snapshot"
    /\ \A c \in Calls : rdContent[c] # AwaitedContent /\ fPc[c] = "idle"
    /\ DOMAIN rdResult.configFiles =
         FetchedPaths \ (NullPaths("empty") \cup NullPaths("undecodable"))
    /\ DOMAIN rdResult.configFiles \cap NullPaths("failed") = {}
    /\ DOMAIN rdResult.configFiles \subseteq ListedManifests
    /\ ListedManifests =
         DOMAIN rdResult.configFiles \cup NullPaths("failed")
           \cup NullPaths("empty") \cup NullPaths("undecodable")

\* two files fetched together: one fetch failed, the other returned text
C19_Witness ==
  /\ rdPc = "done"
  /\ rdContent[1] = NullContent("failed")
  /\ rdContent[2].state = "text"
  /\ DOMAIN rdResult.configFiles = {ConfigPaths[2]}

\* C20: every value of configFiles in the returned snapshot is at most 2000
\* characters long
C20_ConfigFilesTruncated ==
  rdResult.state = "snapshot" =>
    \A p \in DOMAIN rdResult.configFiles : rdResult.configFiles[p] <= ConfigLimit

\* the stage a started call belongs to
StageOf(call) ==
  IF call = "repo" THEN 1 ELSE IF call = "languages" THEN 2
  ELSE IF call = "tree" THEN 3 ELSE 4

\* C21: the labels reported are the four stage labels in their order; a call
\* of a stage is started only when the label of that stage has been reported;
\* after a failure of the repository or the languages call no further label
\* is reported
C21_StageLabelsInOrder ==
  /\ IsPrefix(rdStages, StageLabels)
  /\ \A i \in 1..Len(rdCalls) : StageOf(rdCalls[i]) <= Len(rdStages)
  /\ rdPc \in {"repo", "languages", "tree"} => Len(rdCalls) = Len(rdStages)
  /\ \A i \in 1..Len(rdOut) :
       (i <= 2 /\ rdOut[i].state = "error") => Len(rdStages) = i
  /\ rdResult.state = "snapshot" => rdStages = StageLabels

\* a run through all four stages, and a run that failed in the second
C21_Witness ==
  /\ rdPc = "done"
  /\ \/ rdStages = StageLabels /\ Len(rdCalls) = 3 + NumCalls
     \/ Len(rdStages) = 2 /\ rdResult.state = "error"

\* C22: files are the first 150 blob paths and directories the first 50 tree
\* paths of the tree response, in its order
C22_ListsCapped ==
  rdResult.state = "snapshot" =>
    LET blobs == PathsOfType(rdTree, "blob")
        trees == PathsOfType(rdTree, "tree")
    IN /\ Len(rdResult.files) <= FilesCap
       /\ Len(rdResult.directories) <= DirsCap
       /\ Len(rdResult.files) = Min(FilesCap, Len(blobs))
       /\ Len(rdResult.directories) = Min(DirsCap, Len(trees))
       /\ \A i \in 1..Len(rdResult.files) : rdResult.files[i] = blobs[i]
       /\ \A i \in 1..Len(rdResult.directories) : rdResult.directories[i] = trees[i]

\* a tree with 151 files and 51 directories was cut to 150 and 50
C22_Witness ==
  /\ rdResult.state = "snapshot"
  /\ Len(PathsOfType(rdTree, "blob")) > FilesCap
  /\ Len(PathsOfType(rdTree, "tree")) > DirsCap
  /\ Len(rdResult.files) = FilesCap
  /\ Len(rdResult.directories) = DirsCap

\* the prompt of the request is a non-empty string within the bound
ValidPrompt(ev) ==
  /\ ev.body = "object"
  /\ ev.prompt.type = "string"
  /\ ev.prompt.n >= 1
  /\ ev.prompt.n <= PromptLimit

\* C23: only a non-empty string of at most 100,000 characters is forwarded to
\* the backend; a POST whose prompt is missing, empty, not a string or too
\* long is answered with 400 and nothing is forwarded; a valid prompt is
\* forwarded exactly once (the API key being configured)
C23_PromptValidatedBeforeForward ==
  /\ Len(gnSent) <= 1
  /\ \A i \in 1..Len(gnSent) :
       /\ gnSent[i].type = "string"
       /\ gnSent[i].n >= 1
       /\ gnSent[i].n <= PromptLimit
  /\ (gnPc # "idle" /\ gnEvent.httpMethod = "POST" /\ ~ValidPrompt(gnEvent)) =>
       /\ gnPc = "done"
       /\ gnResult.statusCode = 400
       /\ gnSent = << >>
  /\ (gnPc # "idle" /\ gnEvent.httpMethod = "POST" /\ ValidPrompt(gnEvent)
        /\ gnEvent.apiKey) =>
       gnSent = <<gnEvent.prompt>>

\* C24: generateReadme resolves only with a generated text; when the function
\* answered 200 with a missing or empty text the call of generateReadme ends
\* rejected
C24_EmptyGenerationIsAnError ==
  /\ grResult.state = "resolved" => grResult.content = "text"
  /\ (grPc = "done" /\ gnPc = "done" /\ gnResult.statusCode = 200
        /\ gnResult.text # "text") =>
       grResult.state = "rejected"

C24_Witness ==
  /\ gnResult = [statusCode |-> 200, error |-> "", text |-> "empty"]
  /\ grResult = Rejected("EmptyGeneration", 0)

\* C25: with AUTH_SECRET absent create-pr answers a POST with a server error,
\* which is neither the authentication error (401) nor a user-input error
\* (400)
C25_MissingSecretIsConfigurationError ==
  (prPc # "idle" /\ prEvent.httpMethod = "POST" /\ prEvent.authSecret = "") =>
    /\ prPc = "done"
    /\ prResult.statusCode >= 500
    /\ prResult # Response(401, "Not authenticated. Please sign in with GitHub.")

\* the run of handleCreatePR ended in a failure of the PR creation
HcFailed ==
  /\ hcPc = "done"
  /\ hcProps.isAuthenticated
  /\ \/ ~hcProps.repoInfo
     \/ hcResp.kind = "throw"
     \/ hcResp.kind = "resp" /\ (~hcResp.json \/ ~Ok(hcResp.data.statusCode))

\* C26: a run of handleCreatePR that create-pr answered with 401 (missing,
\* invalid or expired session) called onAuthRequired, and every failed run set
\* one error message and left the creating flag reset
C26_AuthFailureReauthenticates ==
  /\ (hcPc = "done" /\ hcResp.kind = "resp" /\ hcResp.json
        /\ hcResp.data.statusCode = 401) =>
       hcAuth = 1
  /\ HcFailed => (Len(hcSet) = 1 /\ hcSet[1] # "" /\ ~hcCreating)

\* the first position of piece x in a prompt
IndexOf(prompt, x) ==
  CHOOSE i \in 1..Len(prompt) :
    prompt[i] = x /\ \A j \in 1..(i - 1) : prompt[j] # x

\* the pieces of a prompt between the template literals a and b
Between(prompt, a, b) ==
  SubSeq(prompt, IndexOf(prompt, a) + 1, IndexOf(prompt, b) - 1)

\* a list of k entries joined by a separator has 2k - 1 pieces
JoinedLen(k) == IF k = 0 THEN 0 ELSE 2 * k - 1

\* the requested-sections list of a prompt
SectionsLine(prompt) ==
  Between(prompt, "\n\nREQUESTED SECTIONS (in order): ", "\n")

\* the entries of the options list that are enabled and have a description
Wanted == SelectSeq(bpIn.sections, LAMBDA sec : sec.enabled /\ Described(sec.id))

\* C27: the requested-sections list of every compiled prompt holds exactly the
\* enabled sections with a known id, in the order of the options list
C27_RequestedSectionsInOptionsOrder ==
  \A c \in 1..Len(bpOut) :
    LET line == SectionsLine(bpOut[c].prompt)
    IN /\ Len(line) = JoinedLen(Len(Wanted))
       /\ \A i \in 1..Len(Wanted) :
            line[2 * i - 1] = sectionDescriptions(Wanted[i].id)
       /\ \A i \in 1..(Len(Wanted) - 1) : line[2 * i] = ", "

C27_Witness ==
  /\ Len(bpOut) >= 1
  /\ bpIn.sections = << [id |-> "license", enabled |-> TRUE],
                        [id |-> "usage", enabled |-> FALSE],
                        [id |-> "badges", enabled |-> TRUE] >>

\* the languages line of a prompt
LanguagesLine(prompt) == Between(prompt, "\n\nLANGUAGES:\n", "\n\nROOT FILES:\n")

\* the positions of the entry of language e in a languages line
EntryPositions(line, e) ==
  {i \in 1..Len(line) : line[i] = LanguageEntry(e)}

\* C29: the languages line of every compiled prompt has one entry per
\* language of the snapshot, a language with more bytes before one with fewer
C29_LanguagesSortedDescending ==
  \A c \in 1..Len(bpOut) :
    Len(bpIn.languages) > 0 =>
      LET line == LanguagesLine(bpOut[c].prompt)
          langs == {bpIn.languages[i] : i \in 1..Len(bpIn.languages)}
      IN /\ Len(line) = JoinedLen(Len(bpIn.languages))
         /\ \A e \in langs : Cardinality(EntryPositions(line, e)) = 1
         /\ \A e, f \in langs :
              e.bytes > f.bytes =>
                \A i \in EntryPositions(line, e), j \in EntryPositions(line, f) :
                  i < j

C29_Witness ==
  /\ Len(bpOut) >= 1
  /\ bpIn.languages = << [lang |-> "CSS", bytes |-> 1],
                         [lang |-> "JavaScript", bytes |-> 2],
                         [lang |-> "HTML", bytes |-> 1] >>

\* the config block of a prompt
ConfigBlock(prompt) ==
  Between(prompt, "\n\nCONFIG FILES:\n", "\n\nREQUESTED SECTIONS (in order): ")

\* C30: in every compiled prompt a config file longer than 2000 characters is
\* its first 2000 characters followed by the "(truncated)" marker, and a
\* config file of at most 2000 characters is whole and has no marker
C30_ConfigTruncatedWithMarker ==
  \A c \in 1..Len(bpOut) :
    \A i \in 1..Len(bpIn.configFiles) :
      LET e == bpIn.configFiles[i]
          block == ConfigBlock(bpOut[c].prompt)
          k == IndexOf(block, e.file)
          marked == k + 3 <= Len(block) /\ block[k + 3] = "\n... (truncated)"
      IN /\ block[k + 2] = Substring(e.file, Min(e.len, ConfigLimit))
         /\ marked <=> e.len > ConfigLimit

C30_Witness ==
  /\ Len(bpOut) >= 1
  /\ bpIn.configFiles = << [file |-> ConfigPaths[1], len |-> ConfigLimit + 1],
                           [file |-> ConfigPaths[2], len |-> ConfigLimit] >>

\* the pieces of a prompt after its requested-sections list
AfterSections(prompt) ==
  SubSeq(prompt,
         IndexOf(prompt, "\n\nREQUESTED SECTIONS (in order): ")
           + JoinedLen(Len(Wanted)) + 1,
         Len(prompt))

TocBlocks ==
  {"TABLE OF CONTENTS: ENABLED (#-features)", "TABLE OF CONTENTS: ENABLED (#features)"}

\* C31: in every compiled prompt the requested-sections list is followed by
\* the tone, badge-style and emoji blocks in this order, then by the
\* table-of-contents block exactly when includeToc is set, then by the
\* instructions; no section description stands among the blocks
C31_OptionBlocksInFixedOrder ==
  \A c \in 1..Len(bpOut) :
    LET tail == AfterSections(bpOut[c].prompt)
    IN /\ Len(tail) = IF bpIn.includeToc THEN 6 ELSE 5
       /\ tail[1] = "\n"
       /\ tail[2] \in {"TONE: " \o t : t \in Tones \ {"poetic"}}
       /\ tail[3] = "BADGE STYLE: " \o bpIn.badgeStyle
       /\ tail[4] = IF bpIn.useEmojis THEN "EMOJI FORMATTING: ENABLED"
                    ELSE "EMOJI FORMATTING: DISABLED"
       /\ bpIn.includeToc => tail[5] \in TocBlocks
       /\ tail[Len(tail)] = "\nINSTRUCTIONS:"
       /\ \A i \in 1..Len(tail), k \in 1..Len(SectionIds) :
            tail[i] # sectionDescriptions(SectionIds[k])

C31_Witness ==
  /\ Len(bpOut) >= 1
  /\ bpIn.includeToc
  /\ bpIn.useEmojis
  /\ bpIn.tone = "friendly"

\* `defaultBranch || "main"` of the invocation
BaseOf(ev) == IF ev.defaultBranch = "" THEN "main" ELSE ev.defaultBranch

\* C32: every write-file request names the branch of the create-branch
\* request and not the base branch; every create-PR request has that branch
\* as head and the branch of the get-ref request, the caller's defaultBranch
\* or "main", as base
C32_WriteAndPRTargetNewBranch ==
  \A i \in 1..Len(prReqs) :
    /\ prReqs[i].op = "writeFile" =>
         /\ prReqs[2].op = "createBranch"
         /\ prReqs[i].branch = prReqs[2].branch
         /\ prReqs[i].branch # BaseOf(prEvent)
    /\ prReqs[i].op = "createPR" =>
         /\ prReqs[2].op = "createBranch"
         /\ prReqs[i].branch = prReqs[2].branch
         /\ prReqs[1].op = "getRef"
         /\ prReqs[i].base = prReqs[1].branch
         /\ prReqs[i].base = BaseOf(prEvent)

C32_Witness ==
  /\ Len(prReqs) = 5
  /\ prReqs[4].op = "writeFile"
  /\ prReqs[5].op = "createPR"
  /\ prEvent.defaultBranch = ""

\* C33: a delete-branch request is the fifth request of a run whose
\* write-file request was answered with a failure status, and names the
\* branch of the run's create-branch request; a run whose fifth request is the
\* create-PR request issues no delete
C33_DeleteOnlyAfterWriteFailure ==
  /\ \A i \in 1..Len(prReqs) :
       prReqs[i].op = "deleteBranch" =>
         /\ i = 5
         /\ prReqs[4].op = "writeFile"
         /\ prOutcomes[4] = "fail"
         /\ prReqs[2].op = "createBranch"
         /\ prOutcomes[2] = "ok"
         /\ prReqs[i].branch = prReqs[2].branch
  /\ (prPc = "done" /\ Len(prOutcomes) >= 1
        /\ prOutcomes[Len(prOutcomes)] # "ok"
        /\ prReqs[Len(prOutcomes)].op \in {"getRef", "createBranch", "createPR"}) =>
       \A i \in 1..Len(prReqs) : prReqs[i].op # "deleteBranch"

C33_Witness ==
  /\ prPc = "done"
  /\ Len(prReqs) = 5
  /\ prReqs[5].op = "deleteBranch"
  /\ prOutcomes[5] = "ok"

\* call 1 is in its backoff after a response that set remaining to 0 and a
\* reset time
ExhaustedBackoff ==
  /\ fPc[1] = "backoff"
  /\ lastHdrs.seen
  /\ lastHdrs.remaining = "0"
  /\ lastHdrs.reset # NoHeader

\* the retry attempt ends the call with the rate-limit error and no request
BlockedRetry ==
  /\ fNet'[1] = fNet[1]
  /\ fPc'[1] = "done"
  /\ fResult'[1] = Thrown("RateLimitedWait", 0, fNet[1])

\* C34 as stated: after a server error whose headers set remaining to 0 and a
\* reset time later than the time the response was handled, the retry issues
\* no request and the call ends with the rate-limit error
C34_RetryBlockedAfterExhaustion ==
  [][ (ExhaustedBackoff /\ fPc'[1] # "backoff"
         /\ parseInt(lastHdrs.reset) * 1000 > fWake[1] - BackoffMs) =>
        BlockedRetry ]_vars

\* C34 amended: after a server error whose headers set remaining to 0 and a
\* reset time, a retry attempt that starts before the reset time issues no
\* request and the call ends with the rate-limit error; one that starts at or
\* after the reset time issues the request
C34_RetryRechecksRateLimit ==
  [][ (ExhaustedBackoff /\ fPc'[1] # "backoff") =>
        IF now < parseInt(lastHdrs.reset) * 1000 THEN BlockedRetry
        ELSE fNet'[1] = fNet[1] + 1 /\ fPc'[1] = "inflight" ]_vars

C34_Witness ==
  /\ fPc[1] = "done"
  /\ fResult[1] = Thrown("RateLimitedWait", 0, 1)
  /\ lastHdrs.remaining = "0"
  /\ rateLimit.remaining = 0

\* C36: a call of generateReadme with invalid repository data, a sections
\* value that is not an array or no enabled section has ended rejected with
\* the matching error, and the function was not requested
C36_InvalidInputRejectedBeforeRequest ==
  (grPc # "idle" /\ (grIn.repoData # "valid" \/ grIn.sections # "some")) =>
    /\ grPc = "done"
    /\ grResult =
         Rejected(IF grIn.repoData # "valid" THEN "InvalidRepositoryData"
                  ELSE IF grIn.sections = "notarray" THEN "SectionsNotArray"
                  ELSE "NoSectionEnabled", 0)
    /\ gnPc = "idle"
    /\ gnEvent = NoGenEvent
    /\ gnSent = << >>

C36_Witness ==
  /\ grIn.repoData = "valid"
  /\ grIn.sections = "none"
  /\ grResult = Rejected("NoSectionEnabled", 0)
  /\ gnPc = "idle"

\* the text of a header line as fixTocAnchors reads it, turned into the
\* naive slug
NaiveSlug(item) == simpleAnchor(Trim(item.text))

\* C35: generateReadme returns the text of the backend unless includeToc and
\* useEmojis are both set; then the returned text differs from it in nothing
\* but links whose anchor is the naive slug of a header line of the text
C35_AnchorRepairOnlyWithTocAndEmojis ==
  \A c \in 1..Len(tocOut) :
    LET in == tocIn.content
        out == tocOut[c]
    IN /\ ~(tocIn.includeToc /\ tocIn.useEmojis) => out = in
       /\ Len(out) = Len(in)
       /\ \A i \in 1..Len(in) :
            out[i] # in[i] =>
              /\ in[i].kind = "link"
              /\ out[i].kind = "link"
              /\ \E j \in 1..Len(in) :
                   in[j].kind = "header" /\ in[i].text = NaiveSlug(in[j])

\* the response has a Set-Cookie header with the session cookie
SetsSession(result) ==
  \E i \in 1..Len(result.setCookie) : result.setCookie[i].name = "session"

CallbackErrors ==
  { "oauth_denied", "no_code", "invalid_state", "config_error",
    "token_exchange_failed", "user_fetch_failed", "unexpected" }

\* C37: a response of auth-callback sets the session cookie only when the
\* state parameter is non-empty and equals the oauth_state cookie, the three
\* secrets are configured, the token exchange came back without error and
\* the user request succeeded; every other response is a redirect with an
\* error code and without the session cookie; with a missing or different
\* state no request is sent
C37_SessionOnlyAfterFullHandshake ==
  /\ acPc = "done" /\ SetsSession(acResult) =>
       /\ Present(acEvent.state)
       /\ acEvent.state = acEvent.oauth_state
       /\ acEvent.clientId /\ acEvent.clientSecret /\ acEvent.authSecret
       /\ Len(acReqs) = 2
       /\ acReqs[1].to = "token" /\ acReqs[1].answer = "ok"
       /\ acReqs[2].to = "user" /\ acReqs[2].answer = "ok"
       /\ acResult.error = ""
  /\ acPc = "done" /\ ~SetsSession(acResult) =>
       /\ acResult.statusCode = 302
       /\ acResult.error \in CallbackErrors
       /\ acResult.session = NoSession
  /\ acPc # "idle" /\ (~Present(acEvent.state) \/ acEvent.state # acEvent.oauth_state)
       => acReqs = << >>

C37_Witness ==
  /\ acPc = "done"
  /\ SetsSession(acResult)
  /\ acResult.session.token = "gho_1"
  /\ acResult.session.user.login = "octocat"

\* the values of the members of a user object
Leaves(user) == {user[f] : f \in DOMAIN user}

\* the session cookie of the event has a value that does not decrypt, does
\* not parse or is older than the limit
BadCookie(ev) ==
  \/ ev.cookie.kind \in {"garbled", "notjson", "jsonNull"}
  \/ /\ ev.cookie.kind = "session"
     /\ ev.now - ev.cookie.session.createdAt > maxAge

\* C38: auth-status answers authenticated=true only for a session cookie that
\* decrypts, parses and is at most 30 days old; for a cookie that fails one
\* of these it answers authenticated=false and removes the session cookie;
\* no response has the token of the session among its values
C38_StatusNeverExposesToken ==
  /\ asResult.authenticated = "true" =>
       /\ asEvent.cookie.kind = "session"
       /\ asEvent.now - asEvent.cookie.session.createdAt <= maxAge
       /\ asResult.user = asEvent.cookie.session.user
  /\ asEvent.httpMethod = "GET" /\ asEvent.authSecret /\ BadCookie(asEvent) =>
       /\ asResult.authenticated = "false"
       /\ asResult.clears
  /\ asEvent.cookie.kind = "session" =>
       asEvent.cookie.session.token \notin Leaves(asResult.user)

C38_Witness ==
  /\ asResult.authenticated = "true"
  /\ asEvent.now - asEvent.cookie.session.createdAt = maxAge
  /\ asResult.user.login = "hubot"

\* a service call of the run rejected
HsFailedRun == \E i \in 1..Len(hsCalls) : hsCalls[i].outcome = "rejected"

\* what holds when a run of handleSubmit has ended
HsEnded ==
  hsPc = "done" =>
    /\ hsLoads = 1 => ~hsLoading /\ hsStage = ""
    /\ HsFailedRun =>
         /\ Len(hsSet) = 1
         /\ hsSet[1] # ""
         /\ hsError = hsSet[1]
         /\ hsReadme = ""
    /\ parseGitHubUrl(hsUrl) = NoRepo =>
         /\ hsError = InvalidUrlMessage
         /\ hsLoads = 0
         /\ hsCalls = << >>

\* C39: a run of handleSubmit whose URL parsed ends with loading false and
\* stage empty, whether its service calls resolved or rejected; a run with a
\* rejected call has set one error message and left the readme empty; a run
\* whose URL did not parse has set the error, has not set loading and has
\* made no service call
C39_LoadingEventuallyReset ==
  /\ []HsEnded
  /\ (hsPc \in {"aggregating", "generating"})
       ~> (hsPc = "done" /\ ~hsLoading /\ hsStage = "")

C39_Witness ==
  /\ hsPc = "done"
  /\ Len(hsCalls) = 2
  /\ hsCalls[2].outcome = "rejected"
  /\ ~hsLoading

\* C40: mergeSections returns the ids of the defaults in the order of the
\* defaults; an entry is a stored entry with its id when there is one and
\* the default otherwise; a stored value that is no array gives the defaults
C40_MergeKeepsDefaultOrder ==
  \A c \in 1..Len(msOut) :
    LET out == msOut[c]
        stored == msIn.stored
        defaults == msIn.defaults
    IN /\ stored.kind # "array" => out = defaults
       /\ Len(out) = Len(defaults)
       /\ \A i \in 1..Len(defaults) :
            /\ out[i].id = defaults[i].id
            /\ IF \E j \in 1..Len(stored.items) : stored.items[j].id = defaults[i].id
                 THEN \E j \in 1..Len(stored.items) : stored.items[j] = out[i]
                 ELSE out[i] = defaults[i]

C40_Witness ==
  /\ Len(msOut) = 1
  /\ msIn.defaults = DEFAULT_SECTIONS
  /\ msIn.stored.kind = "array"
  /\ msIn.stored.items = << [id |-> "license", enabled |-> FALSE],
                            [id |-> "custom", enabled |-> TRUE],
                            [id |-> "badges", enabled |-> FALSE] >>

====
